---- MODULE Spec2Model ----
(***************************************************************************)
(* A model of the pyquibbler invalidation / override engine.               *)
(*                                                                         *)
(* Part I : the Overrider (assignment/overrider.py): the ordered mapping   *)
(*          from path to Assignment / AssignmentToDefault, its replay over *)
(*          a computed value and its override mask.                        *)
(*                                                                         *)
(* Arrays are one-dimensional, positions 0..ArrLen-1.  A path is a         *)
(* sequence of path components; << >> addresses the whole value.           *)
(***************************************************************************)
EXTENDS Integers, Sequences, FiniteSets, TLC

\* ------------------------------------------------------------------ bounds
\* Length of the arrays held by the nodes.
ArrLen == 3
\* Largest number of entries an Overrider is driven to.
MaxEntries == 2

\* ------------------------------------------------------------------ values
Pos == 0 .. (ArrLen - 1)

\* The value computed by the node's function: arange(ArrLen).
Arange == [i \in Pos |-> i]

\* A value carried by an assignment: a scalar, or an array.
Scalar(v) == [isArr |-> FALSE, s |-> v, a |-> << >>]
ArrayValue(arr) == [isArr |-> TRUE, s |-> 0, a |-> arr]
NoValue == Scalar(0)

ScalarVals == {5, 7}
WholeVals == {[i \in Pos |-> 9 - i]}

\* ------------------------------------------------------------------- paths
\* PathComponent: an integer index or a slice lo:hi (half open), together
\* with the class it indexes (indexed_cls).
IndexComponent(i, cls) == [cls |-> cls, kind |-> "index", lo |-> i, hi |-> i + 1]
SliceComponent(lo, hi, cls) == [cls |-> cls, kind |-> "slice", lo |-> lo, hi |-> hi]
WholePath == << >>
IndexPaths(cls) == {<<IndexComponent(i, cls)>> : i \in Pos}
SlicePaths(cls) ==
    {<<SliceComponent(b[1], b[2], cls)>> : b \in {x \in Pos \X (1 .. ArrLen) : x[1] + 1 < x[2]}}
Paths(cls) == {WholePath} \cup IndexPaths(cls) \cup SlicePaths(cls)

\* The positions a path addresses.
Covers(path, i) == path = << >> \/ (path[1].lo <= i /\ i < path[1].hi)

\* The canonical hashable form of a path, the key of the Overrider's dict.
get_hashable_path(path) == [k \in 1 .. Len(path) |-> <<path[k].kind, path[k].lo, path[k].hi>>]

\* deep_get: the sub-value a path addresses.
deep_get(obj, path) ==
    IF path = << >> THEN ArrayValue(obj)
    ELSE IF path[1].kind = "index" THEN Scalar(obj[path[1].lo])
    ELSE ArrayValue([k \in 0 .. (path[1].hi - path[1].lo - 1) |-> obj[path[1].lo + k]])

\* deep_assign_data_in_path: a new top-level object with value written at
\* path; the empty path replaces the whole object by the value.
deep_assign_data_in_path(obj, path, value) ==
    IF path = << >> THEN value.a
    ELSE [i \in DOMAIN obj |->
            IF Covers(path, i)
            THEN (IF value.isArr THEN value.a[i - path[1].lo] ELSE value.s)
            ELSE obj[i]]

\* -------------------------------------------------------------- assignments
Assignment(path, value) == [kind |-> "Assignment", path |-> path, value |-> value]
AssignmentToDefault(path) == [kind |-> "AssignmentToDefault", path |-> path, value |-> NoValue]
NoAssignment == [kind |-> "None", path |-> << >>, value |-> NoValue]

\* The assignments the callers hand to the Overrider (paths built by
\* Quib.assign / __setitem__ carry the indexed class): 5 or 7 at an index,
\* 7 over a slice, a whole new array at the empty path.
UserAssignments ==
    {Assignment(p, Scalar(v)) : p \in IndexPaths("ndarray"), v \in ScalarVals}
    \cup {Assignment(p, Scalar(7)) : p \in SlicePaths("ndarray")}
    \cup {Assignment(WholePath, ArrayValue(w)) : w \in WholeVals}
UserPaths == Paths("ndarray")

\* AssignmentTemplate.convert: a bound template clamps into [minimum, maximum].
NoTemplate == [bound |-> FALSE, minimum |-> 0, maximum |-> 0]
BoundTemplate(lo, hi) == [bound |-> TRUE, minimum |-> lo, maximum |-> hi]
Clamp(t, v) == IF v < t.minimum THEN t.minimum ELSE IF v > t.maximum THEN t.maximum ELSE v
convert(t, value) ==
    IF value.isArr THEN ArrayValue([i \in DOMAIN value.a |-> Clamp(t, value.a[i])])
    ELSE Scalar(Clamp(t, value.s))
Templates == {NoTemplate, BoundTemplate(0, 6)}

VARIABLES
    pta,        \* Overrider._paths_to_assignments, in insertion order: <<[key, asg]>>
    active,     \* Overrider._active_assignment
    op,         \* the last call on the Overrider: its name, its argument, what
                \* it returned, and the entry its pop() removed and from where
    func,       \* Quib.func of the function quibs of the graph
    ov,         \* QuibHandler._overrider of every quib of the graph (its entries)
    cache,      \* CachedQuibFuncCall.cache of every function quib
    caching,    \* CachedQuibFuncCall._caching of every function quib
    allow,      \* QuibHandler.allow_overriding of every quib
    gop,        \* the exception the last call on the graph raised, if any
    children,   \* QuibHandler.children of every quib created so far
    nquibs,     \* the number of quibs created so far
    stack,      \* the call stack of the invalidation in progress
    tcall,      \* the invalidate_and_redraw_at_path call in progress or last made
    fixture,      \* which of the override-choice graphs is built
    callow,     \* Quib.allow_overriding of the quibs of that graph
    cov,        \* the value each of them is overridden with (0: not overridden)
    choice_cache,   \* QuibHandler._override_choice_cache of every quib
    cresult,    \* the last override-choice call: its arguments and what it yielded
    xy_overrider,   \* the entries of the overrider of the quib xy
    dragging,       \* whether a drag is under way (is_within_drag)
    drag_actions,   \* what the drag under way has assigned so far
    undo_stack,     \* Project's undo stack: the groups that can be undone
    redo_stack,     \* Project's redo stack
    redraws,        \* how often the graphics quib that plots xy was redrawn
    inversion,      \* the last inversion asked for: the call, the assignment, the inversals
    quib_function_call  \* the function quib under study: its definition, cache mode, cache,
                        \* _caching flag, the valid elements of its argument quibs, and the
                        \* last operation on it

ovars == <<pta, active, op>>
gvars == <<func, ov, cache, caching, allow, gop>>
tvars == <<children, nquibs, stack, tcall>>
cvars == <<fixture, callow, cov, choice_cache, cresult>>
pvars == <<xy_overrider, dragging, drag_actions, undo_stack, redo_stack, redraws>>
vars == <<pta, active, op, func, ov, cache, caching, allow, gop, children, nquibs, stack, tcall,
          fixture, callow, cov, choice_cache, cresult,
          xy_overrider, dragging, drag_actions, undo_stack, redo_stack, redraws, inversion, quib_function_call>>

\* ------------------------------------------------------------ the Overrider
HasKey(entries, key) == \E k \in 1 .. Len(entries) : entries[k].key = key
WithoutKey(entries, key) == SelectSeq(entries, LAMBDA e : e.key # key)

\* A mutant of _add_to_paths_to_assignments that forgets to pop the key.
add_without_pop(entries, assignment) ==
    Append(entries, [key |-> get_hashable_path(assignment.path), asg |-> assignment])

\* Overrider._add_to_paths_to_assignments
add_to_paths_to_assignments(entries, assignment) ==
    LET hashable_path == get_hashable_path(assignment.path)
        others == IF HasKey(entries, hashable_path) THEN WithoutKey(entries, hashable_path)
                  ELSE entries
    IN  Append(others, [key |-> hashable_path, asg |-> assignment])

\* add_assignment's copy of the assignment with every indexed_cls cleared.
without_indexed_cls(assignment) ==
    [assignment EXCEPT !.path = [k \in 1 .. Len(assignment.path) |->
                                    [assignment.path[k] EXCEPT !.cls = "None"]]]

\* The body of override()'s loop from entry k on; st holds original_data
\* (never written) and data (the deep copy being overridden).
RECURSIVE replay(_, _, _, _, _)
replay(entries, k, st, tmpl, act) ==
    IF k > Len(entries) THEN st
    ELSE LET assignment == entries[k].asg
             value == IF assignment.kind = "AssignmentToDefault"
                      THEN deep_get(st.original_data, assignment.path)
                      ELSE IF tmpl.bound THEN convert(tmpl, assignment.value)
                      ELSE assignment.value
         IN  replay(entries, k + 1,
                    [st EXCEPT !.data = deep_assign_data_in_path(st.data, assignment.path, value)],
                    tmpl, act)

\* A mutant of override() that reads a default back from the working copy.
override_default_from_copy(entries, d, tmpl, act) ==
    LET RECURSIVE go(_, _)
        go(k, w) ==
            IF k > Len(entries) THEN w
            ELSE LET assignment == entries[k].asg
                     value == IF assignment.kind = "AssignmentToDefault"
                              THEN deep_get(w, assignment.path)
                              ELSE IF tmpl.bound THEN convert(tmpl, assignment.value)
                              ELSE assignment.value
                 IN go(k + 1, deep_assign_data_in_path(w, assignment.path, value))
    IN  [original_data |-> d, data |-> go(1, d)]

\* Overrider.override: deep copy, then replay every entry in insertion order.
override(entries, d, tmpl, act) ==
    replay(entries, 1, [original_data |-> d, data |-> d], tmpl, act)

\* A mutant of fill_override_mask for which a reset to default leaves the mask.
fill_override_mask_ignoring_defaults(entries, false_mask) ==
    LET RECURSIVE go(_, _)
        go(k, mask) ==
            IF k > Len(entries) THEN mask
            ELSE LET assignment == entries[k].asg
                 IN  IF assignment.kind = "AssignmentToDefault" THEN go(k + 1, mask)
                     ELSE IF assignment.path # << >>
                     THEN go(k + 1, deep_assign_data_in_path(mask, assignment.path, Scalar(TRUE)))
                     ELSE go(k + 1, [i \in DOMAIN assignment.value.a |-> TRUE])
    IN  go(1, false_mask)

\* Overrider.fill_override_mask
fill_override_mask(entries, false_mask) ==
    LET RECURSIVE go(_, _)
        go(k, mask) ==
            IF k > Len(entries) THEN mask
            ELSE LET assignment == entries[k].asg
                     val == assignment.kind # "AssignmentToDefault"
                 IN  IF assignment.path # << >>
                     THEN go(k + 1, deep_assign_data_in_path(mask, assignment.path, Scalar(val)))
                     ELSE IF val THEN go(k + 1, [i \in DOMAIN assignment.value.a |-> TRUE])
                     ELSE go(k + 1, false_mask)
    IN  go(1, false_mask)

\* Quib.get_override_mask: np.zeros(shape, dtype=bool) handed to the Overrider.
get_override_mask(entries, shape) == fill_override_mask(entries, [i \in shape |-> FALSE])

NoRet == << >>
Call(name, arg, ret) == [name |-> name, arg |-> arg, ret |-> ret, popped |-> NoAssignment, poppedAt |-> 0]
\* The position of the entry with the key, 0 when there is none.
KeyAt(entries, key) ==
    IF HasKey(entries, key) THEN CHOOSE k \in 1 .. Len(entries) : entries[k].key = key ELSE 0
Write(name, arg, entries) ==
    LET at == KeyAt(entries, get_hashable_path(arg.path))
    IN  [name |-> name, arg |-> arg, ret |-> NoRet,
         popped |-> IF at = 0 THEN NoAssignment ELSE entries[at].asg, poppedAt |-> at]

\* ---------------------------------------------------------- the quib graph
\* Length of the input quib's array.
GraphLen == 2

\* The graph: a = iquib(array), b = func.b(a), c = func.c(b).
Nodes == {"a", "b", "c"}
FuncNodes == {"b", "c"}
parent(n) == IF n = "c" THEN "b" ELSE "a"
Graphs == {[b |-> "vectorize", c |-> "flip"], [b |-> "flip", c |-> "vectorize"],
           [b |-> "flip", c |-> "sum"], [b |-> "sum", c |-> "vectorize"]}

\* Number of elements of a quib's value (np.sum gives one).
SizeOf(f, n) ==
    CASE n = "a" -> GraphLen
      [] n = "b" -> IF f.b = "sum" THEN 1 ELSE GraphLen
      [] n = "c" -> IF f.b = "sum" \/ f.c = "sum" THEN 1 ELSE GraphLen
PosOf(f, n) == 0 .. (SizeOf(f, n) - 1)

\* InputQuib._value
InputValue == [i \in 0 .. (GraphLen - 1) |-> i + 1]

RECURSIVE SumTo(_, _)
SumTo(arr, k) == IF k < 0 THEN 0 ELSE arr[k] + SumTo(arr, k - 1)

\* self.func(*args): np.vectorize(lambda x: x + 10), a transposition
\* (np.flip) and np.sum.
call_func(kind, arg) ==
    LET m == Cardinality(DOMAIN arg)
    IN  CASE kind = "vectorize" -> [i \in DOMAIN arg |-> arg[i] + 10]
          [] kind = "flip" -> [i \in DOMAIN arg |-> arg[m - 1 - i]]
          [] kind = "sum" -> [i \in {0} |-> SumTo(arg, m - 1)]

\* Paths as the engine passes them around: None, the empty path, or one
\* boolean-mask component (the set of positions that are True).
GNone == [kind |-> "none", set |-> {}]
GWhole == [kind |-> "whole", set |-> {}]
GMask(S) == [kind |-> "mask", set |-> S]
Region(path, m) == IF path.kind = "whole" THEN 0 .. (m - 1) ELSE path.set
\* The first component of an assignment's path (path[:1]).
FirstComponent(path) == IF path = << >> THEN GWhole ELSE GMask(path[1].lo .. (path[1].hi - 1))

\* The cache of a function quib: None, or a valid mask with the last values.
CacheNone == [value |-> << >>, exists |-> FALSE, valid |-> {}]
create_cache(result) == [value |-> result, exists |-> TRUE, valid |-> {}]
set_invalid_at_path(c, path, m) == [c EXCEPT !.valid = @ \ Region(path, m)]
set_valid_value_at_path(c, path, result, m) ==
    [c EXCEPT !.valid = @ \cup Region(path, m),
              !.value = [i \in DOMAIN c.value |->
                            IF i \in Region(path, m) THEN result[i] ELSE c.value[i]]]
get_uncached_paths(c, path, m) ==
    LET uncached == Region(path, m) \ c.valid
    IN  IF uncached = {} THEN << >>
        ELSE IF path.kind = "whole" /\ c.valid = {} THEN <<path>>
        ELSE <<GMask(uncached)>>
get_uncached_paths_matching_path(c, path, m) ==
    IF c.exists
    THEN (IF path.kind = "none" THEN << >> ELSE get_uncached_paths(c, path, m))
    ELSE <<path>>
ensure_cache_matches_result(c, result) == IF ~c.exists THEN create_cache(result) ELSE c

\* ------------------------------------------------ the graph of any shape
\* The number of quibs created.
MaxQuibs == 3
\* The most paths a forward translation returns for one invalidated path.
MaxNewPaths == 2
\* The interpreter's recursion limit, above the depth any acyclic graph of
\* MaxQuibs quibs needs.
RecursionLimit == 2 * MaxQuibs + 2
Quibs == 1 .. MaxQuibs

\* The quibs of the override-choice graphs and the assignment made to them.
CQuibs == {"child", "parent1", "parent2", "grandparent1", "grandparent2"}
Shapes ==
    {"parent_and_child", "no_inverter", "failing_inverter", "grandparent_parent_child",
     "diverged_quib_graph"}
ChoiceAssignments == {Assignment(WholePath, Scalar(5)), Assignment(WholePath, Scalar(6))}
AppliedAssignments == {Assignment(WholePath, Scalar(5))}
NoResult ==
    [assignment |-> NoAssignment, name |-> "none", quib |-> "child", applied |-> << >>,
     override_removals |-> << >>, overrides |-> << >>,
     exception |-> [assignment |-> NoAssignment, quib |-> "child", type |-> "None"],
     dialogs |-> << >>]
ChoiceIdle ==
    /\ fixture = "parent_and_child"
    /\ callow = [q \in CQuibs |-> q # "child"]
    /\ cov = [q \in CQuibs |-> 0]
    /\ choice_cache = {}
    /\ cresult = NoResult

NoInversion == [value |-> << >>, func_call |-> "none", inversals |-> {}]
NoFuncCall == [definition |-> [name |-> "none"]]
FuncCallIdle == quib_function_call = NoFuncCall
ProjectIdle ==
    /\ inversion = NoInversion
    /\ xy_overrider = << >>
    /\ dragging = FALSE
    /\ drag_actions = << >>
    /\ undo_stack = << >>
    /\ redo_stack = << >>
    /\ redraws = 0

NoCall == [quib |-> 1, phase |-> "idle", edges |-> 0, quibs |-> {}]
CallsIdle ==
    /\ children = [q \in Quibs |-> {}]
    /\ nquibs = 1
    /\ stack = << >>
    /\ tcall = NoCall

GraphIdle ==
    /\ func = [b |-> "vectorize", c |-> "flip"]
    /\ ov = [n \in Nodes |-> << >>]
    /\ cache = [n \in FuncNodes |-> CacheNone]
    /\ caching = [n \in FuncNodes |-> TRUE]
    /\ allow = [n \in Nodes |-> n = "a"]
    /\ gop = [assignment |-> NoAssignment, quib |-> "a", raised |-> FALSE, guarded |-> FALSE]
    /\ CallsIdle
    /\ ChoiceIdle
    /\ ProjectIdle

\* --------------------------------------------------- Overrider: the actions
OvInit ==
    /\ pta = << >>
    /\ active = NoAssignment
    /\ op = Call("init", NoAssignment, NoRet)
    /\ GraphIdle
    /\ FuncCallIdle

\* Overrider.add_assignment
AddAssignment ==
    \E a \in UserAssignments :
        LET stored == without_indexed_cls(a)
        IN  /\ (Len(pta) < MaxEntries \/ HasKey(pta, get_hashable_path(a.path)))
            /\ active' = stored
            /\ pta' = add_to_paths_to_assignments(pta, stored)
            /\ op' = Write("add_assignment", stored, pta)
            /\ UNCHANGED <<gvars, tvars, cvars, pvars, inversion, quib_function_call>>

\* Overrider.return_assignments_to_default
ReturnAssignmentsToDefault ==
    \E p \in UserPaths :
        LET stored == without_indexed_cls(AssignmentToDefault(p))
        IN  /\ (Len(pta) < MaxEntries \/ HasKey(pta, get_hashable_path(p)))
            /\ IF pta # << >>
               THEN /\ active' = stored
                    /\ pta' = add_to_paths_to_assignments(pta, stored)
                    /\ op' = Write("return_assignments_to_default", stored, pta)
               ELSE /\ UNCHANGED <<pta, active>>
                    /\ op' = Call("return_assignments_to_default", NoAssignment, NoRet)
            /\ UNCHANGED <<gvars, tvars, cvars, pvars, inversion, quib_function_call>>

\* Overrider.override(data, assignment_template), on the computed value
\* arange(ArrLen); it returns the overridden copy.
Override ==
    \E t \in Templates :
        LET st == override(pta, Arange, t, active)
        IN  /\ active' = NoAssignment
            /\ op' = Call("override", NoAssignment, [result |-> st.data, template |-> t, given |-> st.original_data])
            /\ UNCHANGED pta
            /\ UNCHANGED <<gvars, tvars, cvars, pvars, inversion, quib_function_call>>

\* Quib.get_override_mask
GetOverrideMask ==
    /\ op' = Call("get_override_mask", NoAssignment, get_override_mask(pta, Pos))
    /\ UNCHANGED <<pta, active>>
    /\ UNCHANGED <<gvars, tvars, cvars, pvars, inversion, quib_function_call>>

OvNext == AddAssignment \/ ReturnAssignmentsToDefault \/ Override \/ GetOverrideMask

SpecOverrider == OvInit /\ [][OvNext]_vars

\* ------------------------------------------------- Overrider: the claims
IsWrite(o) == o.name = "add_assignment"
                 \/ (o.name = "return_assignments_to_default" /\ o.arg # NoAssignment)
Max(S) == CHOOSE m \in S : \A x \in S : x <= m
\* The index of the last entry covering position i, 0 when none does.
LastCovering(entries, i) ==
    LET ks == {k \in 1 .. Len(entries) : Covers(entries[k].asg.path, i)}
    IN  IF ks = {} THEN 0 ELSE Max(ks)

C5_AddTwiceIsAddOnce ==
    [][(op.name = "add_assignment" /\ op'.name = "add_assignment" /\ op'.arg = op.arg) =>
          /\ pta' = pta
          /\ \A t \in Templates :
                override(pta', Arange, t, active').data = override(pta, Arange, t, active).data
      ]_vars

\* C5 witness: the assignment added is the one that was already the last entry.
C5_Witness ==
    /\ op.name = "add_assignment"
    /\ Len(pta) = 2
    /\ op.popped = op.arg
    /\ op.poppedAt = 2

\* The value position i has after the replay: that of the last entry
\* covering i if it is an Assignment, the computed value otherwise.
ExpectedAt(entries, d, tmpl, i) ==
    LET k == LastCovering(entries, i)
    IN  IF k = 0 \/ entries[k].asg.kind = "AssignmentToDefault" THEN d[i]
        ELSE LET v == IF tmpl.bound THEN convert(tmpl, entries[k].asg.value)
                      ELSE entries[k].asg.value
             IN  IF v.isArr THEN v.a[i] ELSE v.s

\* C6: override() returns, at every position, the (template-converted) value
\* of the last entry covering it when that entry is an Assignment and the
\* computed value otherwise, and leaves the data it was given as it was.
C6_OverrideIsOrderedReplay ==
    op.name = "override" =>
        /\ DOMAIN op.ret.result = Pos
        /\ \A i \in Pos : op.ret.result[i] = ExpectedAt(pta, Arange, op.ret.template, i)
        /\ op.ret.given = Arange

\* C6 witness: x[0:ArrLen] = 7 then x[1:ArrLen] = default gives 7 at position 0
\* and the computed values elsewhere.
C6_Witness ==
    /\ op.name = "override"
    /\ op.ret.template = NoTemplate
    /\ Len(pta) = 2
    /\ pta[1].asg = Assignment(<<SliceComponent(0, ArrLen, "None")>>, Scalar(7))
    /\ pta[2].asg = AssignmentToDefault(<<SliceComponent(1, ArrLen, "None")>>)
    /\ op.ret.result = [i \in Pos |-> IF i = 0 THEN 7 ELSE i]

\* C7: the override mask has the node's shape and is True exactly where the
\* last entry covering the position is an Assignment.
C7_MaskIsLastCoveringAssignment ==
    op.name = "get_override_mask" =>
        /\ DOMAIN op.ret = Pos
        /\ \A i \in Pos :
              op.ret[i] = (LastCovering(pta, i) # 0
                           /\ pta[LastCovering(pta, i)].asg.kind = "Assignment")

\* C7 witness: after overriding index 1 only, the mask is [False, True, False, ...].
C7_Witness ==
    /\ op.name = "get_override_mask"
    /\ Len(pta) = 1
    /\ pta[1].asg.kind = "Assignment"
    /\ pta[1].asg.path = <<IndexComponent(1, "None")>>
    /\ op.ret = [i \in Pos |-> i = 1]

\* ------------------------------------------------ the graph: translation
Flipped(S, m) == {m - 1 - i : i \in S}

\* backwards_translate: the path of the data source a path of the result
\* depends on (m is the size of the source).
backwards_translate(kind, path, m) ==
    CASE kind = "vectorize" -> path
      [] kind = "flip" -> GMask(Flipped(Region(path, m), m))
      [] kind = "sum" -> GWhole

\* CachedQuibFuncCall._backwards_translate_path
backwards_translate_path(kind, valid_path, m) ==
    IF valid_path.kind = "none" THEN GNone ELSE backwards_translate(kind, valid_path, m)

\* A mutant forward translation that reports the source's own positions.
forwards_translate_untransposed(kind, path, m) ==
    IF path.kind = "whole" THEN <<GWhole>> ELSE <<GMask(Region(path, m))>>

\* forwards_translate: the paths of the result a change of the data source
\* at path affects (m is the size of the source).
forwards_translate(kind, path, m) ==
    CASE kind = "vectorize" ->
            IF path.kind = "whole" THEN <<GWhole>>
            ELSE IF Region(path, m) = {} THEN << >>
            ELSE <<GMask(Region(path, m))>>
      [] kind = "flip" ->
            IF Region(path, m) = {} THEN << >>
            ELSE <<GMask(Flipped(Region(path, m), m))>>
      [] kind = "sum" ->
            IF Region(path, m) = {} THEN << >> ELSE <<GWhole>>

\* QuibHandler._get_paths_for_children_invalidation (the invalidator is the
\* data source of the function call)
get_paths_for_children_invalidation(f, n, path) ==
    forwards_translate(f[n], path, SizeOf(f, parent(n)))

\* ------------------------------------------------ the graph: value requests
\* st is the part of the graph a value request changes: [cache, caching].
RECURSIVE get_value_valid_at_path(_, _, _, _, _)

overridden(entries, result) ==
    IF entries # << >> THEN override(entries, result, NoTemplate, NoAssignment).data ELSE result

\* CachedQuibFuncCall._run_on_path
run_on_path(f, ovs, st, n, valid_path) ==
    LET call(pr) == [st |-> pr.st, result |-> call_func(f[n], pr.result)]
    IN  call(get_value_valid_at_path(f, ovs, st, parent(n),
                 backwards_translate_path(f[n], valid_path, SizeOf(f, parent(n)))))

\* CachedQuibFuncCall._run_on_uncached_paths_within_path
run_on_uncached_paths_within_path(f, ovs, st, n, valid_path) ==
    LET m == SizeOf(f, n)
        \* no uncached path and no cache yet: run on None and create the cache
        first_run(r) ==
            LET stored(c) == [st |-> [r.st EXCEPT !.cache[n] = c], result |-> c.value]
            IN  stored(ensure_cache_matches_result(r.st.cache[n], r.result))
        \* the loop body for the uncached path
        store(uncached_path, r) ==
            LET stored(c) ==
                    IF uncached_path.kind = "none"
                    THEN [st |-> [r.st EXCEPT !.cache[n] = c], result |-> r.result]
                    ELSE LET valid(c2) == [st |-> [r.st EXCEPT !.cache[n] = c2],
                                           result |-> c2.value]
                         IN  valid(set_valid_value_at_path(c, uncached_path, r.result, m))
            IN  stored(ensure_cache_matches_result(r.st.cache[n], r.result))
        loop(uncached_paths) ==
            IF uncached_paths = << >>
            THEN IF ~st.cache[n].exists
                 THEN first_run(run_on_path(f, ovs, st, n, GNone))
                 ELSE [st |-> st, result |-> st.cache[n].value]
            ELSE store(uncached_paths[1], run_on_path(f, ovs, st, n, uncached_paths[1]))
    IN  loop(get_uncached_paths_matching_path(st.cache[n], valid_path, m))

\* CachedQuibFuncCall._get_cache_behavior: the function quibs are set to
\* cache_mode ON.
cache_mode == "on"
\* CachedQuibFuncCall._should_cache
should_cache == cache_mode = "on"

\* CachedQuibFuncCall.run
run(f, ovs, st, n, valid_path) ==
    LET decide(r) ==
            LET keep == r.st.caching[n] \/ should_cache
            IN  [st |-> [cache |-> IF keep THEN r.st.cache
                                   ELSE [r.st.cache EXCEPT ![n] = CacheNone],
                         caching |-> [r.st.caching EXCEPT ![n] = keep]],
                 result |-> r.result]
    IN  decide(run_on_uncached_paths_within_path(f, ovs, st, n, valid_path))

\* QuibHandler.get_value_valid_at_path (for the input quib:
\* InputQuib._get_inner_value_valid_at_path, then the overrides)
get_value_valid_at_path(f, ovs, st, n, path) ==
    LET with_overrides(r) == [st |-> r.st, result |-> overridden(ovs[n], r.result)]
    IN  IF n = "a" THEN [st |-> st, result |-> overridden(ovs[n], InputValue)]
        ELSE with_overrides(run(f, ovs, st, n, path))

\* ------------------------------------------------ the graph: invalidation
\* CachedQuibFuncCall._reset_cache
reset_cache(st, n) ==
    [cache |-> [st.cache EXCEPT ![n] = CacheNone],
     caching |-> [st.caching EXCEPT ![n] = (cache_mode = "on")]]

\* QuibHandler.invalidate_self
invalidate_self(f, st, n, path) ==
    LET s1 == IF path.kind = "whole" THEN reset_cache(st, n) ELSE st
    IN  IF s1.cache[n].exists
        THEN [s1 EXCEPT !.cache[n] = set_invalid_at_path(@, path, SizeOf(f, n))]
        ELSE s1

\* QuibHandler._apply_assignment_to_cache
apply_assignment_to_cache(original_value, c, assignment, m) ==
    IF assignment.kind = "Assignment"
    THEN set_valid_value_at_path(c, FirstComponent(assignment.path),
                                 [i \in DOMAIN c.value |-> 0], m)
    ELSE IF assignment.path = << >> THEN create_cache(original_value)
    ELSE set_invalid_at_path(c, FirstComponent(assignment.path), m)

RECURSIVE apply_assignments_to_cache(_, _, _, _, _)
apply_assignments_to_cache(original_value, c, entries, k, m) ==
    IF k > Len(entries) THEN c
    ELSE apply_assignments_to_cache(original_value,
             apply_assignment_to_cache(original_value, c, entries[k].asg, m), entries, k + 1, m)

\* A mutant of the check below: any override at all counts as covering.
is_overridden_at_all(f, ovs, st, n, path) ==
    [st |-> st, ans |-> ovs[n] # << >>]

\* QuibHandler._is_completely_overridden_at_first_component
is_completely_overridden_at_first_component(f, ovs, st, n, path) ==
    LET m == SizeOf(f, n)
        answer(r) ==
            [st |-> r.st,
             ans |-> get_uncached_paths(
                         apply_assignments_to_cache(r.result, create_cache(r.result), ovs[n], 1, m),
                         path, m) = << >>]
    IN  IF ovs[n] = << >> THEN [st |-> st, ans |-> FALSE]
        ELSE answer(get_value_valid_at_path(f, ovs, st, n, GNone))

RECURSIVE invalidate_children_at_path(_, _, _, _, _)

\* A mutant of _invalidate_quib_with_children_at_path that consults the
\* overrider whatever the path of the invalidator.
invalidate_quib_with_children_unless_overridden(f, ovs, st, n, path) ==
    LET descend(new_path, co) ==
            IF ~co.ans THEN invalidate_children_at_path(f, ovs, co.st, n, new_path) ELSE co.st
        invalidated(new_path, s1) ==
            descend(new_path,
                    is_completely_overridden_at_first_component(f, ovs, s1, n, new_path))
        loop(new_paths) ==
            IF new_paths = << >> THEN st
            ELSE invalidated(new_paths[1], invalidate_self(f, st, n, new_paths[1]))
    IN  loop(get_paths_for_children_invalidation(f, n, path))

\* QuibHandler._invalidate_quib_with_children_at_path
invalidate_quib_with_children_at_path(f, ovs, st, n, path) ==
    LET descend(new_path, co) ==
            IF path.kind = "whole" \/ ~co.ans
            THEN invalidate_children_at_path(f, ovs, co.st, n, new_path)
            ELSE co.st
        invalidated(new_path, s1) ==
            descend(new_path,
                    IF path.kind = "whole" THEN [st |-> s1, ans |-> FALSE]
                    ELSE is_completely_overridden_at_first_component(f, ovs, s1, n, new_path))
        loop(new_paths) ==
            IF new_paths = << >> THEN st
            ELSE invalidated(new_paths[1], invalidate_self(f, st, n, new_paths[1]))
    IN  loop(get_paths_for_children_invalidation(f, n, path))

\* QuibHandler._invalidate_children_at_path
invalidate_children_at_path(f, ovs, st, n, path) ==
    IF n = "c" THEN st
    ELSE invalidate_quib_with_children_at_path(f, ovs, st, IF n = "a" THEN "b" ELSE "c", path)

\* ------------------------------------------------ the graph: the actions
\* The paths of value requests and invalidations: the whole value or one index.
IndexMasks(f, n) == {GMask({i}) : i \in PosOf(f, n)}
\* The assignments made to the graph: 7 at index 0 or a whole new array on a
\* or b, and their resets to default on b.
GAssignments(f, n) ==
    {Assignment(<<IndexComponent(0, "ndarray")>>, Scalar(7)),
     Assignment(WholePath, ArrayValue([i \in PosOf(f, n) |-> 7]))}
    \cup (IF n = "b" THEN {AssignmentToDefault(<<IndexComponent(0, "ndarray")>>),
                           AssignmentToDefault(WholePath)}
          ELSE {})
\* The assignments made with allow_overriding_from_now_on=False.
GuardedAssignments == {Assignment(<<IndexComponent(0, "ndarray")>>, Scalar(7))}
\* The outcome of the last call: nothing raised (a call made with
\* allow_overriding_from_now_on=False is noted with its arguments), or the
\* exception.
NoException == [assignment |-> NoAssignment, quib |-> "a", raised |-> FALSE, guarded |-> FALSE]
Recorded(n, assignment, allow_overriding_from_now_on) ==
    IF allow_overriding_from_now_on THEN NoException
    ELSE [assignment |-> assignment, quib |-> n, raised |-> FALSE, guarded |-> TRUE]
OverridingNotAllowedException(n, assignment) ==
    [assignment |-> assignment, quib |-> n, raised |-> TRUE, guarded |-> TRUE]

GInit ==
    /\ func \in Graphs
    /\ ov = [n \in Nodes |-> << >>]
    /\ cache = [n \in FuncNodes |-> CacheNone]
    /\ caching = [n \in FuncNodes |-> TRUE]
    /\ allow = [n \in Nodes |-> n = "a"]
    /\ gop = NoException
    /\ CallsIdle
    /\ ChoiceIdle
    /\ ProjectIdle
    /\ FuncCallIdle
    /\ pta = << >>
    /\ active = NoAssignment
    /\ op = Call("init", NoAssignment, NoRet)

\* A mutant of QuibHandler.override without the allow_overriding check.
override_unchecked(n, assignment, allow_overriding_from_now_on) ==
    LET stored == without_indexed_cls(assignment)
        ov1 == [ov EXCEPT ![n] = add_to_paths_to_assignments(@, stored)]
        st == [cache |-> cache, caching |-> caching]
        s1 == IF assignment.path = << >> /\ n # "a" THEN reset_cache(st, n) ELSE st
        s2 == invalidate_children_at_path(func, ov1, s1, n, FirstComponent(assignment.path))
    IN  /\ allow' = IF allow_overriding_from_now_on THEN [allow EXCEPT ![n] = TRUE] ELSE allow
        /\ ov' = ov1
        /\ cache' = s2.cache
        /\ caching' = s2.caching
        /\ gop' = Recorded(n, assignment, allow_overriding_from_now_on)
        /\ UNCHANGED <<func, ovars, tvars, cvars, pvars, inversion, quib_function_call>>

\* QuibHandler.override
override_at(n, assignment, allow_overriding_from_now_on) ==
    LET allow1 == IF allow_overriding_from_now_on THEN [allow EXCEPT ![n] = TRUE] ELSE allow
        stored == without_indexed_cls(assignment)
        ov1 == [ov EXCEPT ![n] = add_to_paths_to_assignments(@, stored)]
        st == [cache |-> cache, caching |-> caching]
        s1 == IF assignment.path = << >> /\ n # "a" THEN reset_cache(st, n) ELSE st
        s2 == invalidate_children_at_path(func, ov1, s1, n, FirstComponent(assignment.path))
    IN  /\ allow' = allow1
        /\ IF ~allow1[n]
           THEN /\ gop' = OverridingNotAllowedException(n, assignment)
                /\ UNCHANGED <<ov, cache, caching>>
           ELSE /\ ov' = ov1
                /\ cache' = s2.cache
                /\ caching' = s2.caching
                /\ gop' = Recorded(n, assignment, allow_overriding_from_now_on)
        /\ UNCHANGED <<func, ovars, tvars, cvars, pvars, inversion, quib_function_call>>

HandlerOverride ==
    \E n \in Nodes, allow_overriding_from_now_on \in BOOLEAN :
      \E assignment \in GAssignments(func, n) :
        /\ (allow_overriding_from_now_on => n # "c")
        /\ (~allow_overriding_from_now_on => assignment \in GuardedAssignments)
        /\ override_at(n, assignment, allow_overriding_from_now_on)

\* Quib.get_value_valid_at_path (get_value is the request at the empty path)
request_at(n, path) ==
    LET r == get_value_valid_at_path(func, ov, [cache |-> cache, caching |-> caching], n, path)
    IN  /\ cache' = r.st.cache
        /\ caching' = r.st.caching
        /\ gop' = NoException
        /\ UNCHANGED <<func, ov, allow, ovars, tvars, cvars, pvars, inversion, quib_function_call>>

GetValueValidAtPath ==
    \E n \in FuncNodes : \E path \in {GNone, GWhole} \cup IndexMasks(func, n) : request_at(n, path)

\* QuibHandler.invalidate_and_redraw_at_path
InvalidateAndRedrawAtPath ==
    \E n \in {"a", "b"} :
      \E path \in {GWhole} \cup IndexMasks(func, n) :
        LET s == invalidate_children_at_path(func, ov, [cache |-> cache, caching |-> caching], n, path)
        IN  /\ cache' = s.cache
            /\ caching' = s.caching
            /\ gop' = NoException
            /\ UNCHANGED <<func, ov, allow, ovars, tvars, cvars, pvars, inversion, quib_function_call>>

GNext == HandlerOverride \/ GetValueValidAtPath \/ InvalidateAndRedrawAtPath

SpecGraph == GInit /\ [][GNext]_vars

\* ------------------------------------- the graph driven as check_invalidation
\* The input quib is assigned at any index, slice or as a whole, and the
\* result b = func.b(a) is requested.
InputAssignments ==
    {Assignment(p, Scalar(7)) : p \in {<<IndexComponent(i, "ndarray")>> : i \in 0 .. (GraphLen - 1)}}
    \cup {Assignment(<<SliceComponent(r[1], r[2], "ndarray")>>, Scalar(7)) :
             r \in {x \in (0 .. (GraphLen - 1)) \X (1 .. GraphLen) : x[1] + 1 < x[2]}}
    \cup {Assignment(WholePath, ArrayValue([i \in 0 .. (GraphLen - 1) |-> 7]))}

AssignInput ==
    \E assignment \in InputAssignments :
        /\ (Len(ov["a"]) < MaxEntries \/ HasKey(ov["a"], get_hashable_path(assignment.path)))
        /\ override_at("a", assignment, TRUE)

GetResult == \E path \in {GWhole} \cup IndexMasks(func, "b") : request_at("b", path)

ANext == AssignInput \/ GetResult

SpecAssignInput == GInit /\ [][ANext]_vars

\* ------------------------------------ invalidation, one call frame at a time
\* The frames of the three recursive methods. pending is the part of the
\* copied children set the frame's loop has still to visit, paths the number
\* of new paths its loop has still to handle, acc the set built so far.
Frame(fn, q, pending, paths, acc) ==
    [quib |-> q, fn |-> fn, pending |-> pending, paths |-> paths, acc |-> acc]

\* A mutant of the loop below that also visits the quib itself.
invalidate_children_and_self(q) ==
    Frame("_invalidate_children_at_path", q, children[q] \cup {q}, 0, {})

\* QuibHandler._invalidate_children_at_path: for child in set(self.children)
invalidate_children(q) ==
    Frame("_invalidate_children_at_path", q, children[q], 0, {})

\* QuibHandler._invalidate_quib_with_children_at_path: for new_path in new_paths
invalidate_quib_with_children(q, new_paths) ==
    Frame("_invalidate_quib_with_children_at_path", q, {}, new_paths, {})

\* Quib.get_descendants: children = self.get_children(); for child in self.get_children()
get_descendants(q) ==
    Frame("get_descendants", q, children[q], 0, children[q])

Top == stack[Len(stack)]
Pop == SubSeq(stack, 1, Len(stack) - 1)
Running == tcall.phase \in {"invalidate", "redraw"}

\* A call: the frame is pushed, or the interpreter raises RecursionError and
\* the stack unwinds.
Push(below, frame, call) ==
    IF Len(below) >= RecursionLimit
    THEN /\ stack' = << >>
         /\ tcall' = [call EXCEPT !.phase = "RecursionError"]
    ELSE /\ stack' = Append(below, frame)
         /\ tcall' = call

TInit ==
    /\ CallsIdle
    /\ ChoiceIdle
    /\ ProjectIdle
    /\ FuncCallIdle
    /\ pta = << >>
    /\ active = NoAssignment
    /\ op = Call("init", NoAssignment, NoRet)
    /\ func = [b |-> "vectorize", c |-> "flip"]
    /\ ov = [n \in Nodes |-> << >>]
    /\ cache = [n \in FuncNodes |-> CacheNone]
    /\ caching = [n \in FuncNodes |-> TRUE]
    /\ allow = [n \in Nodes |-> n = "a"]
    /\ gop = NoException

\* The factory: a new quib is registered as a child of each of its parents,
\* which are quibs that exist already.
CreateQuib ==
    /\ ~Running
    /\ nquibs < MaxQuibs
    /\ \E parents \in SUBSET (1 .. nquibs) :
          children' = [q \in Quibs |-> IF q \in parents THEN children[q] \cup {nquibs + 1}
                                       ELSE children[q]]
    /\ nquibs' = nquibs + 1
    /\ tcall' = NoCall
    /\ UNCHANGED <<stack, ovars, gvars, cvars, pvars, inversion, quib_function_call>>

\* QuibHandler.invalidate_and_redraw_at_path: the call
CallInvalidateAndRedrawAtPath ==
    /\ ~Running
    /\ \E q \in 1 .. nquibs :
          Push(<< >>, invalidate_children(q),
               [quib |-> q, phase |-> "invalidate", edges |-> 0, quibs |-> {}])
    /\ UNCHANGED <<children, nquibs, ovars, gvars, cvars, pvars, inversion, quib_function_call>>

\* One iteration of the loop of _invalidate_children_at_path, or its return.
InvalidateChildrenStep ==
    /\ tcall.phase = "invalidate"
    /\ stack # << >>
    /\ Top.fn = "_invalidate_children_at_path"
    /\ IF Top.pending = {}
       THEN /\ stack' = Pop
            /\ tcall' = tcall
       ELSE \E child \in Top.pending, new_paths \in 0 .. MaxNewPaths :
              Push([stack EXCEPT ![Len(stack)].pending = @ \ {child}],
                   invalidate_quib_with_children(child, new_paths),
                   [tcall EXCEPT !.edges = @ + 1])
    /\ UNCHANGED <<children, nquibs, ovars, gvars, cvars, pvars, inversion, quib_function_call>>

\* One iteration of the loop of _invalidate_quib_with_children_at_path (the
\* quib invalidates itself, and its children unless the path is completely
\* overridden), or its return.
InvalidateQuibStep ==
    /\ tcall.phase = "invalidate"
    /\ stack # << >>
    /\ Top.fn = "_invalidate_quib_with_children_at_path"
    /\ IF Top.paths = 0
       THEN /\ stack' = Pop
            /\ tcall' = tcall
       ELSE \E completely_overridden \in BOOLEAN :
              LET below == [stack EXCEPT ![Len(stack)].paths = @ - 1]
              IN  IF completely_overridden
                  THEN /\ stack' = below
                       /\ tcall' = tcall
                  ELSE Push(below, invalidate_children(Top.quib), tcall)
    /\ UNCHANGED <<children, nquibs, ovars, gvars, cvars, pvars, inversion, quib_function_call>>

\* QuibHandler._redraw: the invalidation returned, the descendants are
\* enumerated.
Redraw ==
    /\ tcall.phase = "invalidate"
    /\ stack = << >>
    /\ Push(<< >>, get_descendants(tcall.quib), [tcall EXCEPT !.phase = "redraw"])
    /\ UNCHANGED <<children, nquibs, ovars, gvars, cvars, pvars, inversion, quib_function_call>>

\* One iteration of the loop of get_descendants, or its return.
GetDescendantsStep ==
    /\ tcall.phase = "redraw"
    /\ stack # << >>
    /\ IF Top.pending = {}
       THEN IF Len(stack) = 1
            THEN /\ stack' = << >>
                 /\ tcall' = [tcall EXCEPT !.phase = "returned", !.quibs = Top.acc]
            ELSE /\ stack' = [Pop EXCEPT ![Len(stack) - 1].acc = @ \cup Top.acc]
                 /\ tcall' = tcall
       ELSE \E child \in Top.pending :
              Push([stack EXCEPT ![Len(stack)].pending = @ \ {child}],
                   get_descendants(child), tcall)
    /\ UNCHANGED <<children, nquibs, ovars, gvars, cvars, pvars, inversion, quib_function_call>>

TStep == InvalidateChildrenStep \/ InvalidateQuibStep \/ Redraw \/ GetDescendantsStep
TNext == CreateQuib \/ CallInvalidateAndRedrawAtPath \/ TStep

\* The interpreter runs the call in progress to its end.
SpecInvalidation == TInit /\ [][TNext]_vars /\ WF_vars(TStep)

\* C3: on every graph the factory can build, invalidate_and_redraw_at_path
\* never exhausts the recursion limit, and every call made returns.
C3_InvalidationReturns ==
    /\ [](tcall.phase # "RecursionError")
    /\ [](Running => <>(tcall.phase = "returned"))

\* C3 witness: on the graph 1 -> 2 -> 3 with 1 -> 3 the call on quib 1
\* returned after the invalidation reached quib 3 along both ways, and the
\* descendants enumerated are both other quibs.
C3_Witness ==
    /\ children[1] = {2, 3}
    /\ children[2] = {3}
    /\ tcall.phase = "returned"
    /\ tcall.quib = 1
    /\ tcall.edges = 3
    /\ tcall.quibs = {2, 3}

\* ------------------------------------------------------ the override choice
\* get_overrides_for_assignment on the graphs of test_override_choice.py:
\* child = parent1 + 1; child = a function without inverter of parent1;
\* child = (grandparent1 * 1.) + 1; child = concatenate((grandparent1 * 1.,
\* grandparent2 * 1.)).
RECURSIVE from_quib_change(_, _, _)
RECURSIVE walk(_, _, _, _, _, _)
RECURSIVE choose_overrides(_, _)
RECURSIVE diverge(_, _, _)

\* Quib.parents, in argument order
Parents(sh, q) ==
    CASE sh = "diverged_quib_graph" /\ q = "child" -> <<"parent1", "parent2">>
      [] sh = "diverged_quib_graph" /\ q = "parent2" -> <<"grandparent2">>
      [] sh \in {"diverged_quib_graph", "grandparent_parent_child"} /\ q = "parent1" ->
            <<"grandparent1">>
      [] sh # "diverged_quib_graph" /\ q = "child" -> <<"parent1">>
      [] OTHER -> << >>
QuibsOf(sh) ==
    CASE sh = "diverged_quib_graph" -> CQuibs
      [] sh = "grandparent_parent_child" -> {"child", "parent1", "grandparent1"}
      [] OTHER -> {"child", "parent1"}
\* The inverters registered for the quib's function: none for an input quib
\* and for a function registered without inverse functions.
Inverters(sh, q) ==
    IF Parents(sh, q) = << >> \/ sh = "no_inverter" THEN << >> ELSE <<"Inverter">>
\* A mutant of inverter_raises: no inverter ever fails.
inverter_never_raises(sh, q, inverter) == FALSE
\* Whether the inverter raises FailedToInvertException on the quib's call.
inverter_raises(sh, q, inverter) == sh = "failing_inverter"
\* invert: the first registered inverter that does not fail yields the
\* inversals; NoInvertersFoundException is raised when there is none, and
\* HasInverter says that it is not.
HasInverter(sh, q) ==
    \E k \in DOMAIN Inverters(sh, q) : ~inverter_raises(sh, q, Inverters(sh, q)[k])
\* The value the inverter assigns to the parent: child = parent1 + 1 is
\* inverted by subtracting 1, x * 1. and concatenate keep the value.
Inverted(sh, q, assignment) ==
    IF q = "child" /\ sh # "diverged_quib_graph"
    THEN Assignment(assignment.path, Scalar(assignment.value.s - 1))
    ELSE assignment

AssignmentToQuib(q, assignment) == [assignment |-> assignment, quib |-> q]

\* A mutant of get_inversions_for_assignment that inverts a function
\* without inverter as the identity.
get_inversions_without_inverters(sh, q, assignment) ==
    [i \in DOMAIN Parents(sh, q) |-> AssignmentToQuib(Parents(sh, q)[i], Inverted(sh, q, assignment))]

\* A mutant of get_inversions_for_assignment that inverts to the first
\* parent alone.
get_inversions_to_first_parent(sh, q, assignment) ==
    IF ~HasInverter(sh, q) THEN << >>
    ELSE <<AssignmentToQuib(Parents(sh, q)[1], Inverted(sh, q, assignment))>>

\* QuibHandler.get_inversions_for_assignment
get_inversions_for_assignment(sh, q, assignment) ==
    IF ~HasInverter(sh, q) THEN << >>
    ELSE [i \in DOMAIN Parents(sh, q) |->
             AssignmentToQuib(Parents(sh, q)[i], Inverted(sh, q, assignment))]

\* OverrideOptionsTree.__bool__ and can_diverge
can_diverge(tree) == Len(tree.children) > 0
IsOption(tree) == Len(tree.options) > 0 \/ can_diverge(tree)

\* OverrideOptionsTree.from_quib_change: the walk up the single inversions,
\* then the trees of a diverged inversion, kept only if every one has options.
walk(sh, allowed, quib, inversions, options, override_removals) ==
    IF Len(inversions) = 1
    THEN walk(sh, allowed, quib,
              get_inversions_for_assignment(sh, inversions[1].quib, inversions[1].assignment),
              IF allowed[inversions[1].quib]
              THEN Append(options, [override_removals |-> override_removals,
                                    change |-> inversions[1]])
              ELSE options,
              Append(override_removals, inversions[1].quib))
    ELSE LET kept(trees) ==
                 [children |-> IF \A i \in DOMAIN trees : IsOption(trees[i]) THEN trees
                               ELSE << >>,
                  quib |-> quib, override_removals |-> override_removals, options |-> options]
         IN  kept([i \in DOMAIN inversions |-> from_quib_change(sh, allowed, inversions[i])])

from_quib_change(sh, allowed, quib_change) ==
    walk(sh, allowed, quib_change.quib, <<quib_change>>, << >>, << >>)

\* What a call yields: the exception it raised if any, the overrides and
\* override removals of the group, the dialogs it opened and the choice cache.
NotRaised == [assignment |-> NoAssignment, quib |-> "child", type |-> "None"]
Exception(type, q, assignment) == [assignment |-> assignment, quib |-> q, type |-> type]
Outcome(exception, overrides, override_removals, dialogs, choices) ==
    [override_removals |-> override_removals, overrides |-> overrides,
     exception |-> exception, dialogs |-> dialogs, choices |-> choices]

ChoiceContext(tree) ==
    [quibs |-> [i \in DOMAIN tree.options |-> tree.options[i].change.quib],
     can_diverge |-> can_diverge(tree)]
\* A call of choose_override_dialog as the call's record keeps it: the quib
\* whose options are offered, the options and the can-diverge flag.
Dialog(tree) ==
    [quib |-> tree.quib,
     quibs |-> [i \in DOMAIN tree.options |-> tree.options[i].change.quib],
     can_diverge |-> can_diverge(tree)]
OverrideChoice(type, chosen_index) == [type |-> type, chosen_index |-> chosen_index]
\* What choose_override_dialog can return (a cancellation apart).
Answers(tree) ==
    {OverrideChoice("OVERRIDE", i) : i \in DOMAIN tree.options}
    \cup (IF can_diverge(tree) THEN {OverrideChoice("DIVERGE", 0)} ELSE {})

\* A mutant of try_load_override_choice that never finds a choice.
try_load_nothing(choices, q, context) == {}
\* A mutant of try_load_override_choice that takes a choice stored for as
\* many options, whichever they were.
try_load_for_as_many_options(choices, q, context) ==
    {e.choice : e \in {x \in choices : /\ x.quib = q
                                       /\ Len(x.context.quibs) = Len(context.quibs)
                                       /\ x.context.can_diverge = context.can_diverge}}
\* QuibHandler.try_load_override_choice: the choice stored on the quib for
\* the context, as a set (empty: None).
try_load_override_choice(choices, q, context) ==
    {e.choice : e \in {x \in choices : x.quib = q /\ x.context = context}}
\* QuibHandler.store_override_choice
store_override_choice(choices, q, context, choice) ==
    {e \in choices : ~(e.quib = q /\ e.context = context)}
    \cup {[quib |-> q, context |-> context, choice |-> choice]}

\* The choices of the diverged trees, one after the other.
diverge(trees, k, so_far) ==
    IF k > Len(trees) \/ so_far.exception.type # "None" THEN {so_far}
    ELSE UNION {diverge(trees, k + 1,
                        Outcome(o.exception, so_far.overrides \o o.overrides,
                                so_far.override_removals \o o.override_removals,
                                so_far.dialogs \o o.dialogs, o.choices)) :
                o \in choose_overrides(trees[k], so_far.choices)}

\* OverrideOptionsTree.choose_overrides
choose_overrides(tree, choices) ==
    LET context == ChoiceContext(tree)
        cached == try_load_override_choice(choices, tree.quib, context)
        made(choice, dialogs, stored) ==
            IF choice.type = "OVERRIDE"
            THEN {Outcome(NotRaised, <<tree.options[choice.chosen_index].change>>,
                          tree.options[choice.chosen_index].override_removals, dialogs, stored)}
            ELSE diverge(tree.children, 1,
                         Outcome(NotRaised, << >>, tree.override_removals, dialogs, stored))
    IN  IF Len(tree.options) = 1 /\ ~can_diverge(tree)
        THEN made(OverrideChoice("OVERRIDE", 1), << >>, choices)
        ELSE IF Len(tree.options) = 0 /\ can_diverge(tree)
        THEN made(OverrideChoice("DIVERGE", 0), << >>, choices)
        ELSE IF cached # {}
        THEN UNION {made(choice, << >>, choices) : choice \in cached}
        ELSE {Outcome(Exception("AssignmentCancelledByUserException", "child", NoAssignment),
                      << >>, << >>, <<Dialog(tree)>>, choices)}
             \cup UNION {made(choice, <<Dialog(tree)>>,
                              store_override_choice(choices, tree.quib, context, choice)) :
                         choice \in Answers(tree)}

\* get_overrides_for_assignment. After a cancellation the choices the call
\* had stored before it either stay stored or are dropped.
get_overrides_for_assignment(sh, allowed, choices, q, assignment) ==
    LET chosen(tree) ==
            IF ~IsOption(tree)
            THEN {Outcome(Exception("AssignmentNotPossibleException", q, assignment),
                          << >>, << >>, << >>, choices)}
            ELSE UNION {IF o.exception.type = "AssignmentCancelledByUserException"
                        THEN {o, Outcome(o.exception, o.overrides, o.override_removals,
                                         o.dialogs, choices)}
                        ELSE {o} : o \in choose_overrides(tree, choices)}
    IN  chosen(from_quib_change(sh, allowed, AssignmentToQuib(q, assignment)))

\* OverrideGroup.apply: every override removal, then every override.
RECURSIVE apply_overrides(_, _, _)
apply_overrides(overridden_values, overrides, k) ==
    IF k > Len(overrides) THEN overridden_values
    ELSE apply_overrides([overridden_values EXCEPT ![overrides[k].quib] = overrides[k].assignment.value.s],
                         overrides, k + 1)
\* A mutant of apply that leaves the overrides of the quibs on the way in
\* place.
apply_without_removals(overridden_values, group) ==
    apply_overrides(overridden_values, group.overrides, 1)
apply(overridden_values, group) ==
    apply_overrides([q \in CQuibs |-> IF \E k \in DOMAIN group.override_removals :
                                            group.override_removals[k] = q
                                     THEN 0 ELSE overridden_values[q]],
                    group.overrides, 1)
OverrideGroup(overrides, override_removals) ==
    [override_removals |-> override_removals, overrides |-> overrides]
\* A mutant of group_to_apply that applies what was gathered before an
\* exception.
group_gathered(outcome) == OverrideGroup(outcome.overrides, outcome.override_removals)
\* The group apply_assignment and inverse_assign_drawing_func apply: the one
\* returned, none when the choice raised.
group_to_apply(outcome) ==
    IF outcome.exception.type = "None"
    THEN OverrideGroup(outcome.overrides, outcome.override_removals)
    ELSE OverrideGroup(<< >>, << >>)
\* The quibs whose handler ran remove_override or override in applying the
\* group, in order; each run invalidates at the path and, outside a drag,
\* pushes on the undo stack.
handlers_run(group) ==
    group.override_removals \o [k \in DOMAIN group.overrides |-> group.overrides[k].quib]

CInit ==
    /\ fixture \in Shapes
    /\ callow = [q \in CQuibs |-> Parents(fixture, q) = << >>]
    /\ cov = [q \in CQuibs |-> 0]
    /\ choice_cache = {}
    /\ cresult = NoResult
    /\ CallsIdle
    /\ pta = << >>
    /\ active = NoAssignment
    /\ op = Call("init", NoAssignment, NoRet)
    /\ func = [b |-> "vectorize", c |-> "flip"]
    /\ ov = [n \in Nodes |-> << >>]
    /\ cache = [n \in FuncNodes |-> CacheNone]
    /\ caching = [n \in FuncNodes |-> TRUE]
    /\ allow = [n \in Nodes |-> n = "a"]
    /\ gop = NoException
    /\ ProjectIdle
    /\ FuncCallIdle

\* Quib.allow_overriding (setter)
SetAllowOverriding ==
    /\ cresult = NoResult
    /\ \E q \in QuibsOf(fixture), allow_overriding \in BOOLEAN :
          callow' = [callow EXCEPT ![q] = allow_overriding]
    /\ cresult' = NoResult
    /\ UNCHANGED <<fixture, cov, choice_cache, ovars, gvars, tvars, pvars, inversion, quib_function_call>>

Result(name, q, assignment, outcome, applied) ==
    [assignment |-> assignment, name |-> name, quib |-> q, applied |-> applied,
     override_removals |-> IF outcome.exception.type = "None"
                           THEN outcome.override_removals ELSE << >>,
     overrides |-> IF outcome.exception.type = "None" THEN outcome.overrides ELSE << >>,
     exception |-> outcome.exception, dialogs |-> outcome.dialogs]

\* get_overrides_for_assignment(quib, assignment), as the tests call it
GetOverridesForAssignment ==
    /\ cresult = NoResult
    /\ \E q \in QuibsOf(fixture), assignment \in ChoiceAssignments :
         \E outcome \in get_overrides_for_assignment(fixture, callow, choice_cache, q, assignment) :
            /\ choice_cache' = outcome.choices
            /\ cresult' = Result("get_overrides_for_assignment", q, assignment, outcome, << >>)
    /\ UNCHANGED <<fixture, callow, cov, ovars, gvars, tvars, pvars, inversion, quib_function_call>>

\* QuibHandler.apply_assignment: the group is chosen and applied
ApplyAssignment ==
    /\ cresult = NoResult
    /\ \E q \in QuibsOf(fixture), assignment \in AppliedAssignments :
         \E outcome \in get_overrides_for_assignment(fixture, callow, choice_cache, q, assignment) :
            /\ choice_cache' = outcome.choices
            /\ cov' = apply(cov, group_to_apply(outcome))
            /\ cresult' = Result("apply_assignment", q, assignment, outcome,
                                 handlers_run(group_to_apply(outcome)))
    /\ UNCHANGED <<fixture, callow, ovars, gvars, tvars, pvars, inversion, quib_function_call>>

\* The caller takes the group returned or handles the exception raised
\* (inverse_assign_drawing_func passes on a cancellation).
HandleOutcome ==
    /\ cresult # NoResult
    /\ cresult' = NoResult
    /\ UNCHANGED <<fixture, callow, cov, choice_cache, ovars, gvars, tvars, pvars, inversion, quib_function_call>>

CNext == SetAllowOverriding \/ GetOverridesForAssignment \/ ApplyAssignment \/ HandleOutcome

SpecOverrideChoice == CInit /\ [][CNext]_vars

\* -------------------------------------------- the project: undo and redraw
\* One input quib xy = iquib(arange(ArrLen)), its first two elements plotted
\* as (x, y) by one graphics quib; assignments, resets to default, drags
\* and undo / redo on it.

\* The most undo steps kept, and the most redraws counted.
MaxUndo == 3
MaxRedraws == 5

XPath == <<IndexComponent(0, "ndarray")>>
YPath == <<IndexComponent(1, "ndarray")>>
XYPath == <<SliceComponent(0, 2, "ndarray")>>
ProjectPaths == {XPath, YPath, XYPath}
ProjectAssignments == {Assignment(p, Scalar(v)) : p \in ProjectPaths, v \in ScalarVals}
\* The changes the inversion of one mouse motion yields: x alone (a marker
\* on the x axis), or x and y.
DragGroups ==
    {<<Assignment(XPath, Scalar(v))>> : v \in ScalarVals}
    \cup {<<Assignment(XPath, Scalar(v)), Assignment(YPath, Scalar(v))>> : v \in ScalarVals}
\* The groups applied outside a drag: one assignment, or x and y together.
AssignedGroups == {<<a>> : a \in ProjectAssignments} \cup DragGroups

\* Quib.get_value of xy
project_value(entries) == override(entries, Arange, NoTemplate, NoAssignment).data

\* Overrider.add_assignment, on the entries
add_assignment(entries, assignment) ==
    add_to_paths_to_assignments(entries, without_indexed_cls(assignment))

\* Overrider.get: the assignment held at the path, NoAssignment when none.
assignment_at(entries, path) ==
    IF HasKey(entries, get_hashable_path(path))
    THEN entries[KeyAt(entries, get_hashable_path(path))].asg ELSE NoAssignment

\* Overrider.pop_assignment_at_path
pop_assignment_at_path(entries, path) == WithoutKey(entries, get_hashable_path(path))

\* A mutant of insert_assignment_at_path_and_index that swaps nothing in:
\* the entries stay as the pop left them.
insert_nothing(entries, assignment, index) == entries

\* A mutant of insert_assignment_at_path_and_index that puts the entry last
\* whatever the index.
insert_assignment_at_end(entries, assignment, index) ==
    Append(WithoutKey(entries, get_hashable_path(assignment.path)),
           [key |-> get_hashable_path(assignment.path), asg |-> assignment])

\* Overrider.insert_assignment_at_path_and_index: list.insert at the index
\* (0-based, past the end appends), then dict() of the pairs, in which a key
\* met again keeps its first place and takes the later assignment.
insert_assignment_at_path_and_index(entries, assignment, index) ==
    LET at == IF index > Len(entries) THEN Len(entries) ELSE index
        key == get_hashable_path(assignment.path)
        item == [key |-> key, asg |-> assignment]
    IN  IF ~HasKey(entries, key)
        THEN SubSeq(entries, 1, at) \o <<item>> \o SubSeq(entries, at + 1, Len(entries))
        ELSE IF at < KeyAt(entries, key)
        THEN SubSeq(entries, 1, at) \o <<entries[KeyAt(entries, key)]>>
             \o WithoutKey(SubSeq(entries, at + 1, Len(entries)), key)
        ELSE [entries EXCEPT ![KeyAt(entries, key)] = item]

\* AssignmentAction: what one elementary assignment put on the undo stack.
AssignmentAction(previous_index, previous_assignment, new_assignment) ==
    [previous_index |-> previous_index, previous_assignment |-> previous_assignment,
     new_assignment |-> new_assignment]

\* The running state of one call: the overrider's entries, the actions
\* pushed in the open undo group, the graphics quibs awaiting the end of
\* the aggregate redraw mode, and the redraws made.
CallState(entries) == [entries |-> entries, pending |-> {}, actions |-> << >>, redrawn |-> 0]

\* A mutant of is_within_drag that never sees the drag.
never_within_drag(drag) == FALSE
\* pyquibbler.graphics.is_within_drag
is_within_drag(drag) == drag

\* A mutant of the redraw that never defers.
redraw_quibs_at_once(state, aggregate) == [state EXCEPT !.redrawn = @ + 1]
\* redraw_quibs_with_graphics_or_add_in_aggregate_mode, for the one graphics
\* quib that depends on xy: redrawn now, or set aside while the aggregate
\* redraw mode is on.
redraw_quibs_with_graphics_or_add_in_aggregate_mode(state, aggregate) ==
    IF aggregate THEN [state EXCEPT !.pending = @ \cup {"plot_quib"}]
    ELSE [state EXCEPT !.redrawn = @ + 1]

\* Project.push_assignment_to_undo_stack: the action joins the open group,
\* with the assignment the path held before.
push_assignment_to_undo_stack(state, previous, assignment, index) ==
    [state EXCEPT !.actions = Append(@, AssignmentAction(index, previous, assignment))]

\* QuibHandler.override: the assignment is added, the quib invalidated and
\* redrawn, and outside a drag the assignment is pushed with the index of
\* the last entry.
handler_override(state, assignment, drag, aggregate) ==
    LET entries == add_assignment(state.entries, assignment)
        redrawn == redraw_quibs_with_graphics_or_add_in_aggregate_mode(
                       [state EXCEPT !.entries = entries], aggregate)
    IN  IF ~is_within_drag(drag)
        THEN push_assignment_to_undo_stack(redrawn, assignment_at(state.entries, assignment.path),
                                           assignment, Len(entries) - 1)
        ELSE redrawn

\* Overrider.return_assignments_to_default
return_assignments_to_default(entries, path) ==
    IF entries # << >> THEN add_assignment(entries, AssignmentToDefault(path)) ELSE entries

\* QuibHandler.remove_override: when the overrider holds anything the path
\* is returned to default and, outside a drag, that is pushed; the quib is
\* invalidated and redrawn in any case.
remove_override(state, path, drag, aggregate) ==
    LET entries == return_assignments_to_default(state.entries, path)
        removed == [state EXCEPT !.entries = entries]
        pushed == IF state.entries # << >> /\ ~is_within_drag(drag)
                  THEN push_assignment_to_undo_stack(removed, assignment_at(state.entries, path),
                                                     AssignmentToDefault(path), Len(entries) - 1)
                  ELSE removed
    IN  redraw_quibs_with_graphics_or_add_in_aggregate_mode(pushed, aggregate)

\* aggregate_redraw_mode, at its exit: every quib set aside is redrawn once.
exit_aggregate_redraw_mode(state) ==
    [state EXCEPT !.pending = {}, !.redrawn = @ + Cardinality(state.pending)]

\* OverrideGroup.apply: the changes are applied in order inside one undo
\* group and one aggregate redraw mode.
RECURSIVE apply_changes(_, _, _)
apply_changes(state, changes, drag) ==
    IF changes = << >> THEN state
    ELSE apply_changes(handler_override(state, Head(changes), drag, TRUE), Tail(changes), drag)
apply_group(entries, changes, drag) ==
    exit_aggregate_redraw_mode(apply_changes(CallState(entries), changes, drag))

\* An undo step: its actions, with the value of xy before and after it.
UndoGroup(actions, before, after) == [actions |-> actions, before |-> before, after |-> after]

\* The actions of a gesture so far: an assignment to a path the gesture has
\* assigned already replaces that action's new assignment, keeping what the
\* path held before the gesture.
RECURSIVE record_in_drag(_, _, _, _)
record_in_drag(actions, entries, changes, k) ==
    IF k > Len(changes) THEN actions
    ELSE LET assignment == changes[k]
             after == add_assignment(entries, assignment)
             same == {i \in DOMAIN actions : actions[i].new_assignment.path = assignment.path}
             recorded ==
                 IF same = {}
                 THEN Append(actions, AssignmentAction(Len(after) - 1,
                                                       assignment_at(entries, assignment.path),
                                                       assignment))
                 ELSE [i \in DOMAIN actions |->
                          IF i \in same
                          THEN AssignmentAction(Len(after) - 1, actions[i].previous_assignment,
                                                assignment)
                          ELSE actions[i]]
         IN  record_in_drag(recorded, after, changes, k + 1)

\* AssignmentAction.undo: the new assignment is popped and the previous one,
\* if any, inserted at the index pushed.
undo_action(entries, action) ==
    LET popped == pop_assignment_at_path(entries, action.new_assignment.path)
    IN  IF action.previous_assignment = NoAssignment THEN popped
        ELSE insert_assignment_at_path_and_index(popped, action.previous_assignment,
                                                 action.previous_index)
\* AssignmentAction.redo
redo_action(entries, action) == add_assignment(entries, action.new_assignment)
\* Project.undo / redo of a group: its actions undone last first, redone
\* first first.
RECURSIVE undo_group(_, _, _)
undo_group(entries, actions, k) ==
    IF k = 0 THEN entries ELSE undo_group(undo_action(entries, actions[k]), actions, k - 1)
RECURSIVE redo_group(_, _, _)
redo_group(entries, actions, k) ==
    IF k > Len(actions) THEN entries
    ELSE redo_group(redo_action(entries, actions[k]), actions, k + 1)
\* pop_assignment_at_path raises NoAssignmentFoundAtPathException when the
\* path holds nothing.
RECURSIVE undo_raises(_, _, _)
undo_raises(entries, actions, k) ==
    IF k = 0 THEN FALSE
    ELSE \/ ~HasKey(entries, get_hashable_path(actions[k].new_assignment.path))
         \/ undo_raises(undo_action(entries, actions[k]), actions, k - 1)

PInit ==
    /\ OvInit

\* The steps stop once MaxRedraws redraws are counted.
Counting == redraws < MaxRedraws

Pushed(stack_, state, entries) ==
    IF state.actions = << >> THEN stack_
    ELSE Append(stack_, UndoGroup(state.actions, project_value(entries), project_value(state.entries)))

\* Quib.assign / __setitem__ outside a drag: apply_assignment applies the
\* group of the assignment, here one or two changes of xy.
ProjectAssign ==
    /\ ~dragging /\ Counting /\ Len(undo_stack) < MaxUndo
    /\ \E changes \in AssignedGroups :
         LET state == apply_group(xy_overrider, changes, dragging)
         IN  /\ xy_overrider' = state.entries
             /\ undo_stack' = Pushed(undo_stack, state, xy_overrider)
             /\ redo_stack' = IF state.actions = << >> THEN redo_stack ELSE << >>
             /\ redraws' = redraws + state.redrawn
    /\ UNCHANGED <<dragging, drag_actions, ovars, gvars, tvars, cvars, inversion, quib_function_call>>

\* Quib.assign(default) / the right click on the marker: remove_override
ProjectRemoveOverride ==
    /\ ~dragging /\ Counting /\ Len(undo_stack) < MaxUndo
    /\ \E path \in {XPath, XYPath} :
         LET state == remove_override(CallState(xy_overrider), path, dragging, FALSE)
         IN  /\ xy_overrider' = state.entries
             /\ undo_stack' = Pushed(undo_stack, state, xy_overrider)
             /\ redo_stack' = IF state.actions = << >> THEN redo_stack ELSE << >>
             /\ redraws' = redraws + state.redrawn
    /\ UNCHANGED <<dragging, drag_actions, ovars, gvars, tvars, cvars, inversion, quib_function_call>>

\* The mouse is pressed on the marker: the drag starts.
Press ==
    /\ ~dragging /\ Counting /\ Len(undo_stack) < MaxUndo
    /\ dragging' = TRUE
    /\ drag_actions' = << >>
    /\ UNCHANGED <<xy_overrider, undo_stack, redo_stack, redraws, ovars, gvars, tvars, cvars, inversion, quib_function_call>>

\* The mouse moves: inverse_assign_drawing_func applies the group of the
\* motion.
Motion ==
    /\ dragging /\ Counting
    /\ \E changes \in DragGroups :
         LET state == apply_group(xy_overrider, changes, dragging)
         IN  /\ xy_overrider' = state.entries
             /\ undo_stack' = Pushed(undo_stack, state, xy_overrider)
             /\ redo_stack' = IF state.actions = << >> THEN redo_stack ELSE << >>
             /\ drag_actions' = record_in_drag(drag_actions, xy_overrider, changes, 1)
             /\ redraws' = redraws + state.redrawn
    /\ UNCHANGED <<dragging, ovars, gvars, tvars, cvars, inversion, quib_function_call>>

\* The mouse is released: the drag ends and what it assigned becomes one
\* undo step.
Release ==
    /\ dragging
    /\ dragging' = FALSE
    /\ drag_actions' = << >>
    /\ undo_stack' =
          IF drag_actions = << >> \/ ~is_within_drag(dragging) THEN undo_stack
          ELSE Append(undo_stack,
                      UndoGroup(drag_actions,
                                project_value(undo_group(xy_overrider, drag_actions,
                                                         Len(drag_actions))),
                                project_value(xy_overrider)))
    /\ redo_stack' = IF drag_actions = << >> THEN redo_stack ELSE << >>
    /\ UNCHANGED <<xy_overrider, redraws, ovars, gvars, tvars, cvars, inversion, quib_function_call>>

\* Project.undo
Undo ==
    /\ ~dragging /\ Counting
    /\ undo_stack # << >>
    /\ LET group == undo_stack[Len(undo_stack)]
       IN  /\ ~undo_raises(xy_overrider, group.actions, Len(group.actions))
           /\ xy_overrider' = undo_group(xy_overrider, group.actions, Len(group.actions))
           /\ undo_stack' = SubSeq(undo_stack, 1, Len(undo_stack) - 1)
           /\ redo_stack' = Append(redo_stack, group)
           /\ redraws' = redraws + 1
    /\ UNCHANGED <<dragging, drag_actions, ovars, gvars, tvars, cvars, inversion, quib_function_call>>

\* Project.redo
Redo ==
    /\ ~dragging /\ Counting
    /\ redo_stack # << >>
    /\ LET group == redo_stack[Len(redo_stack)]
       IN  /\ xy_overrider' = redo_group(xy_overrider, group.actions, 1)
           /\ redo_stack' = SubSeq(redo_stack, 1, Len(redo_stack) - 1)
           /\ undo_stack' = Append(undo_stack, group)
           /\ redraws' = redraws + 1
    /\ UNCHANGED <<dragging, drag_actions, ovars, gvars, tvars, cvars, inversion, quib_function_call>>

PNext == ProjectAssign \/ ProjectRemoveOverride \/ Press \/ Motion \/ Release \/ Undo \/ Redo

SpecProject == PInit /\ [][PNext]_vars

\* ------------------------------------- inversion of transpositional functions
\* A call of a transpositional numpy function on small arrays, an assignment
\* to positions of its result, and the inversals the inverter yields for it.
\* Arrays are functions from their linear indices 0 .. n-1.

\* The longest data argument, the largest repeat count (and shape of full),
\* and the most result positions one assignment names.
MaxLen == 4
MaxCount == 3
MaxAssigned == 2

Size(arr) == Cardinality(DOMAIN arr)
\* The values an assignment writes.
NewValues == {98, 99}

\* An argument of the call: a Source or a plain value (source ""), holding
\* an ndarray, a list or a scalar.
Arg(source, container, value) == [value |-> value, source |-> source, container |-> container]
\* [first, first + 1, ...] of n elements
Counting_from(first, n) == [i \in 0 .. (n - 1) |-> first + i]
OneToOneFuncs == {"rot90", "reshape", "array", "concatenate"}
OneToManyFuncs == {"repeat", "tile", "full"}
\* TranspositionalOneToOneInverter / TranspositionalOneToManyInverter
IS_ONE_TO_MANY_FUNC(f) == f \in OneToManyFuncs

\* FuncCall: the function, its data arguments (two for concatenate, whose
\* data argument is a tuple) and its parameter argument (the count of
\* repeat and tile, the shape of full; unused otherwise).
FuncCall(f, data, parameter) == [func |-> f, data |-> data, parameter |-> parameter]
NoParameter == Arg("", "scalar", <<1>>)
DataArgs(source, first) ==
    {Arg(s, c, Counting_from(first, n)) :
        s \in {source, ""}, c \in {"ndarray", "list"}, n \in 1 .. MaxLen}
Parameters == {Arg(s, "scalar", <<n>>) : s \in {"parameter", ""}, n \in 1 .. MaxCount}
FuncCalls ==
    {FuncCall(f, <<a>>, NoParameter) : f \in {"rot90", "reshape", "array"}, a \in DataArgs("a", 1)}
    \cup UNION {{FuncCall("concatenate", <<a, b>>, NoParameter) :
                    b \in DataArgs("b", Size(a.value) + 1)} : a \in DataArgs("a", 1)}
    \cup {FuncCall(f, <<a>>, p) : f \in {"repeat", "tile"}, a \in DataArgs("a", 1), p \in Parameters}
    \cup {FuncCall("full", <<Arg(s, "scalar", [i \in {0} |-> 5])>>, p) :
             s \in {"fill", ""}, p \in Parameters}

\* The function itself, on the linear indices: rot90 of a row reverses it,
\* reshape and array keep the order, concatenate joins, repeat copies each
\* element count times in place, tile copies the whole count times, full
\* copies the fill value.
run_func(f, arrays, count) ==
    LET a == arrays[1]
        n == Size(a)
    IN  CASE f = "rot90" -> [i \in 0 .. (n - 1) |-> a[n - 1 - i]]
          [] f \in {"reshape", "array"} -> a
          [] f = "concatenate" ->
                [i \in 0 .. (n + Size(arrays[2]) - 1) |->
                    IF i < n THEN a[i] ELSE arrays[2][i - n]]
          [] f = "repeat" -> [i \in 0 .. (n * count - 1) |-> a[i \div count]]
          [] f = "tile" -> [i \in 0 .. (n * count - 1) |-> a[i % n]]
          [] f = "full" -> [i \in 0 .. (count - 1) |-> a[0]]
\* FuncCall.run
run_func_call(func_call) ==
    run_func(func_call.func, [k \in DOMAIN func_call.data |-> func_call.data[k].value],
             func_call.parameter.value[1])

\* IndexCode: what a cell of an index-code array says besides the linear
\* index of an element of the focal source.
FOCAL_SOURCE_SCALAR == 0 - 1
OTHERS_ELEMENT == 0 - 3
SCALAR_NOT_CONTAINING_FOCAL_SOURCE == 0 - 4
\* A mutant of is_focal_element that takes every cell for the focal source's.
is_any_element(code) == TRUE
\* is_focal_element
is_focal_element(code) == code >= 0 \/ code = FOCAL_SOURCE_SCALAR

\* A mutant of the conversion that encodes every argument as the focal one.
convert_as_focal_source(arg, focal_source) == [i \in DOMAIN arg.value |-> i]
\* convert_an_arg_to_array_of_source_index_codes (path_in_source None): the
\* focal source becomes its linear indices, or FOCAL_SOURCE_SCALAR when it
\* is a scalar; another ndarray becomes OTHERS_ELEMENT throughout, another
\* list or scalar SCALAR_NOT_CONTAINING_FOCAL_SOURCE in each element.
convert_an_arg_to_array_of_source_index_codes(arg, focal_source) ==
    IF arg.source # "" /\ arg.source = focal_source
    THEN (IF arg.container = "scalar" THEN [i \in DOMAIN arg.value |-> FOCAL_SOURCE_SCALAR]
          ELSE [i \in DOMAIN arg.value |-> i])
    ELSE IF arg.container = "ndarray" THEN [i \in DOMAIN arg.value |-> OTHERS_ELEMENT]
    ELSE [i \in DOMAIN arg.value |-> SCALAR_NOT_CONTAINING_FOCAL_SOURCE]

\* ArrayPathTranslator.convert_data_arguments_to_source_index_codes: every
\* data argument, and every member of a multi-arg data argument, converted.
convert_data_arguments_to_source_index_codes(func_call, focal_source) ==
    [k \in DOMAIN func_call.data |->
        convert_an_arg_to_array_of_source_index_codes(func_call.data[k], focal_source)]

\* run_func_call_with_new_args_kwargs on the converted arguments: the index
\* code of every position of the result.
source_index_array(func_call, focal_source) ==
    run_func(func_call.func,
             convert_data_arguments_to_source_index_codes(func_call, focal_source),
             func_call.parameter.value[1])

\* FuncCall.get_data_sources: the sources among the data arguments.
get_data_sources(func_call) ==
    {func_call.data[k].source : k \in DOMAIN func_call.data} \ {""}

\* The path in a source: everything ([]), or a mask of linear indices.
PathInSource(whole, mask) == [mask |-> mask, whole |-> whole]
\* The focal cells among the chosen positions of the result.
source_indices(func_call, source, chosen) ==
    {source_index_array(func_call, source)[p] :
        p \in {q \in chosen : is_focal_element(source_index_array(func_call, source)[q])}}
\* NewNumpyBackwardsPathTranslator.backwards_translate: for every data
\* source with a focal cell among the chosen positions, its path.
backwards_translate_sources(func_call, chosen) ==
    {[path |-> IF FOCAL_SOURCE_SCALAR \in source_indices(func_call, s, chosen)
               THEN PathInSource(TRUE, {0})
               ELSE PathInSource(FALSE, source_indices(func_call, s, chosen)),
      source |-> s] :
        s \in {x \in get_data_sources(func_call) : source_indices(func_call, x, chosen) # {}}}

\* A mutant of _invert_value that adds one.
invert_value_plus_one(result_value) == result_value + 1
\* TranspositionalOneToOneInverter._invert_value
invert_value(result_value) == result_value

Min(S) == CHOOSE m \in S : \A x \in S : m <= x
\* A mutant of the choice among the copies: the last one.
last_occurrence(occurrences) == Max(occurrences)
\* Of the chosen positions of the result that hold one source element, the
\* one whose value is taken: the first.
first_occurrence(occurrences) == Min(occurrences)

\* The assigned value at the chosen position that stands for the source
\* element with the code.
result_value_for(func_call, source, chosen, value, code) ==
    value[first_occurrence({p \in chosen : source_index_array(func_call, source)[p] = code})]

\* NumpyInverter.get_inversals: one inversal for every source the backwards
\* translation names, assigning to each element of its path the inverted
\* value of the result position that stands for it.
get_inversals(func_call, chosen, value) ==
    {[assignment |->
          [path |-> t.path,
           value |-> [i \in t.path.mask |->
                         invert_value(result_value_for(
                             func_call, t.source, chosen, value,
                             IF t.path.whole THEN FOCAL_SOURCE_SCALAR ELSE i))]],
      source |-> t.source] :
        t \in backwards_translate_sources(func_call, chosen)}

\* The call with the inversals written into its sources.
with_inversals(func_call, inversals) ==
    [func_call EXCEPT !.data =
        [k \in DOMAIN func_call.data |->
            [func_call.data[k] EXCEPT !.value =
                [i \in DOMAIN func_call.data[k].value |->
                    IF \E v \in inversals : /\ v.source = func_call.data[k].source
                                            /\ v.source # ""
                                            /\ i \in v.assignment.path.mask
                    THEN (CHOOSE v \in inversals : v.source = func_call.data[k].source)
                             .assignment.value[i]
                    ELSE func_call.data[k].value[i]]]]]

\* The assignments to the result: up to MaxAssigned positions, each with
\* its new value.
ResultAssignments(func_call) ==
    UNION {[chosen -> NewValues] :
              chosen \in {c \in SUBSET DOMAIN run_func_call(func_call) :
                             c # {} /\ Cardinality(c) <= MaxAssigned}}

\* inverse(func, args, value, indices), as the tests call it
Invert ==
    /\ inversion = NoInversion
    /\ \E func_call \in FuncCalls :
         \E value \in ResultAssignments(func_call) :
            inversion' = [value |-> value, func_call |-> func_call,
                          inversals |-> get_inversals(func_call, DOMAIN value, value)]
    /\ UNCHANGED <<ovars, gvars, tvars, cvars, pvars, quib_function_call>>

\* The caller has taken the inversals.
InversalsTaken ==
    /\ inversion # NoInversion
    /\ inversion' = NoInversion
    /\ UNCHANGED <<ovars, gvars, tvars, cvars, pvars, quib_function_call>>

IInit == OvInit
INext == Invert \/ InversalsTaken
SpecInversion == IInit /\ [][INext]_vars

\* ------------------------------------------ inversion of element-wise functions
\* y = f(a, b) for a binary element-wise numpy function; one operand is a
\* quib (the source), the other a plain scalar or array.  Numbers are exact
\* fractions n/d with d >= 0; d = 0 stands for numpy's non-finite values
\* (1/0 inf, -1/0 -inf, 0/0 nan).

\* The largest element of an operand.
MaxOperand == 3

Abs(x) == IF x < 0 THEN 0 - x ELSE x
Sign(x) == IF x < 0 THEN 0 - 1 ELSE IF x > 0 THEN 1 ELSE 0
RECURSIVE GCD(_, _)
GCD(a, b) == IF b = 0 THEN a ELSE GCD(b, a % b)
\* the fraction n/d in lowest terms
Frac(n, d) ==
    IF d = 0 THEN [d |-> 0, n |-> Sign(n)]
    ELSE LET g == GCD(Abs(n), d) IN [d |-> d \div g, n |-> n \div g]
Num(x) == Frac(x, 1)
NaN == Frac(0, 0)
IsFinite(x) == x.d # 0

np_add(x, y) ==
    IF x.d = 0 /\ y.d = 0 THEN (IF x.n = y.n THEN x ELSE NaN)
    ELSE Frac(x.n * y.d + y.n * x.d, x.d * y.d)
np_negative(x) == [d |-> x.d, n |-> 0 - x.n]
np_subtract(x, y) == np_add(x, np_negative(y))
np_multiply(x, y) == Frac(x.n * y.n, x.d * y.d)
np_reciprocal(x) == IF x.n < 0 THEN Frac(0 - x.d, 0 - x.n) ELSE Frac(x.d, x.n)
np_divide(x, y) == np_multiply(x, np_reciprocal(y))

BinaryFuncs == {"add", "subtract", "multiply", "divide"}

np_func(f, x, y) ==
    CASE f = "add" -> np_add(x, y)
      [] f = "subtract" -> np_subtract(x, y)
      [] f = "multiply" -> np_multiply(x, y)
      [] f = "divide" -> np_divide(x, y)

\* A mutant of inverse_func: the inverse of the first operand used for both.
inverse_func_of_first_operand(f, position, result, other) ==
    CASE f = "add" -> np_subtract(result, other)
      [] f = "subtract" -> np_add(result, other)
      [] f = "multiply" -> np_divide(result, other)
      [] f = "divide" -> np_multiply(result, other)

\* The inverse functions binary_elementwise registers for each operand
\* position: (result, other operand) -> the operand.
inverse_func(f, position, result, other) ==
    CASE f = "add" -> np_subtract(result, other)
      [] f = "subtract" ->
            IF position = 0 THEN np_add(result, other) ELSE np_subtract(other, result)
      [] f = "divide" ->
            IF position = 0 THEN np_multiply(result, other) ELSE np_divide(other, result)
      [] f = "multiply" -> np_divide(result, other)

\* The operands: the source, an array over Pos, and the other operand, a
\* scalar (which numpy broadcasts) or an array.
SourceOperands == [Pos -> {Num(x) : x \in 0 .. MaxOperand}]
OtherOperands ==
    {[i \in Pos |-> Num(x)] : x \in 0 .. MaxOperand}
    \cup {[i \in Pos |-> Num((i + x) % (MaxOperand + 1))] : x \in 0 .. MaxOperand}
\* A call f(args[0], args[1]) whose operand at position source is the quib.
ElementwiseCall(f, source, operand, other) ==
    [func |-> f, data |-> IF source = 0 THEN <<operand, other>> ELSE <<other, operand>>,
     source |-> source]
ElementwiseCalls ==
    {ElementwiseCall(f, k, a, b) :
        f \in BinaryFuncs, k \in {0, 1}, a \in SourceOperands, b \in OtherOperands}
run_elementwise(call) ==
    [i \in Pos |-> np_func(call.func, call.data[1][i], call.data[2][i])]

\* Inverter._get_result_with_assignment_set
get_result_with_assignment_set(previous_result, i, v) ==
    [previous_result EXCEPT ![i] = v]

\* BinaryElementwiseInverter.get_inversals: the source operand at the
\* assigned index becomes inverse_func(new result, previous other operand).
get_elementwise_inversals(call, i, v) ==
    LET previous_result == run_elementwise(call)
        new_result == get_result_with_assignment_set(previous_result, i, v)
        other == call.data[IF call.source = 0 THEN 2 ELSE 1]
    IN  {[assignment |-> [path |-> i,
                          value |-> inverse_func(call.func, call.source, new_result[i], other[i])],
          source |-> call.source]}

\* The call with the inversals written into its source operand.
with_elementwise_inversals(call, inversals) ==
    [call EXCEPT !.data =
        [k \in {1, 2} |->
            [i \in Pos |->
                IF \E v \in inversals : v.source = k - 1 /\ v.assignment.path = i
                THEN (CHOOSE v \in inversals : v.source = k - 1 /\ v.assignment.path = i)
                         .assignment.value
                ELSE call.data[k][i]]]]

AssignedValues == {Num(0), Num(5), Num(6)}

\* An assignment of v at index i of the result quib.
InvertElementwise ==
    /\ inversion = NoInversion
    /\ \E call \in ElementwiseCalls, i \in Pos, v \in AssignedValues :
          inversion' = [value |-> <<i, v>>, func_call |-> call,
                        inversals |-> get_elementwise_inversals(call, i, v)]
    /\ UNCHANGED <<ovars, gvars, tvars, cvars, pvars, quib_function_call>>

EInit == OvInit
ENext == InvertElementwise \/ InversalsTaken
SpecElementwise == EInit /\ [][ENext]_vars

\* ------------------------------------------------- the cached function call
\* One function quib and the quibs among its arguments: the data sources a
\* and b (arrays of SourceLen elements) and the parameter p (a scalar).  Each
\* argument quib is a cached quib of its own: the positions of its cache
\* that are valid hold fresh data, the others hold the data of an earlier
\* run.  A value is the pair of whether it was computed from fresh data and
\* of the draw of the random generator it came from (0 for a function that
\* is not random).

\* The length of the data sources.
SourceLen == 2
\* The number of values a random function can draw.
MaxDraws == 2

SourceQuibs == {"a", "b", "p"}
SourceSize(q) == IF q = "p" THEN 1 ELSE SourceLen
SourcePos(q) == 0 .. (SourceSize(q) - 1)

\* The definition of the function: its data-source and parameter arguments,
\* the backwards translators registered for it, whether it is random and
\* whether it can create graphics; evaluate_now is a default creation flag of
\* a known graphics function.
FuncDefinition(name, data, parameters, translators, is_random, graphics) ==
    [data |-> data, name |-> name, parameters |-> parameters, translators |-> translators,
     is_random |-> is_random, graphics |-> graphics, evaluate_now |-> graphics]
FuncDefinitions ==
    {FuncDefinition("add", {"a", "b"}, {}, "elementwise", FALSE, FALSE),
     FuncDefinition("concatenate", {"a", "b"}, {}, "transpositional", FALSE, FALSE),
     FuncDefinition("sum", {"a"}, {"p"}, "reduction", FALSE, FALSE),
     FuncDefinition("sum_of_list", {}, {"p"}, "reduction", FALSE, FALSE),
     FuncDefinition("getitem", {"a"}, {"p"}, "with_shape", FALSE, FALSE),
     FuncDefinition("user_function", {"a", "b"}, {"p"}, "none", FALSE, FALSE),
     FuncDefinition("rand", {}, {"p"}, "none", TRUE, FALSE),
     FuncDefinition("plot", {}, {"a", "p"}, "none", FALSE, TRUE)}

\* The number of elements of the result.
ResultSize(definition) ==
    CASE definition.name = "concatenate" -> 2 * SourceLen
      [] definition.name \in {"sum", "sum_of_list", "plot"} -> 1
      [] OTHER -> SourceLen
ResultPos(definition) == 0 .. (ResultSize(definition) - 1)
\* The elements of the arguments an element of the result is computed from.
DependsOn(definition, i) ==
    CASE definition.name = "add" -> {<<"a", i>>, <<"b", i>>}
      [] definition.name = "concatenate" ->
            IF i < SourceLen THEN {<<"a", i>>} ELSE {<<"b", i - SourceLen>>}
      [] definition.name = "getitem" -> {<<"a", i>>, <<"p", 0>>}
      [] OTHER -> UNION {{<<q, j>> : j \in SourcePos(q)} :
                            q \in definition.data \cup definition.parameters}
\* The paths a value is requested at: none, the whole object and the slices.
RequestPaths(m) ==
    {GNone, GWhole} \cup
    {GMask(s[1] .. s[2]) : s \in {t \in (0 .. (m - 1)) \X (0 .. (m - 1)) : t[1] <= t[2]}}
\* Whether the run is worth caching is looked at in mode auto only.
WorthCaching(definition, mode) ==
    IF mode = "auto" /\ ~definition.is_random /\ ~definition.graphics
    THEN BOOLEAN ELSE {FALSE}

\* backwards_translate(func_call, path, shape, type_): the paths of the data
\* sources the path depends on, or NoTranslatorsFoundException.
translate_backwards(definition, path, with_shape) ==
    LET found(sources_to_paths) == [raised |-> FALSE, sources_to_paths |-> sources_to_paths]
        chosen == Region(path, ResultSize(definition))
        part(q) == IF q = "a" THEN {i \in chosen : i < SourceLen}
                   ELSE {i - SourceLen : i \in {j \in chosen : j >= SourceLen}}
    IN  CASE definition.translators = "elementwise" -> found([q \in definition.data |-> path])
          [] definition.translators = "reduction" -> found([q \in definition.data |-> GWhole])
          [] definition.translators = "transpositional" ->
                found([q \in {s \in definition.data : part(s) # {}} |-> GMask(part(q))])
          [] definition.translators = "with_shape" /\ with_shape ->
                found([q \in definition.data |-> path])
          [] OTHER -> [raised |-> TRUE, sources_to_paths |-> << >>]

\* A mutant of call_backwards_translate_path that falls back to the whole
\* of every data source when no translator is found.
call_backwards_translate_path_or_whole(definition, valid_path) ==
    LET first == translate_backwards(definition, valid_path, FALSE)
        second == translate_backwards(definition, valid_path, TRUE)
        sources_to_paths == IF first.raised THEN second.sources_to_paths
                            ELSE first.sources_to_paths
    IN  IF definition.data = {} THEN << >>
        ELSE IF first.raised /\ second.raised THEN [q \in definition.data |-> GWhole]
        ELSE [q \in definition.data |->
                 IF q \in DOMAIN sources_to_paths THEN sources_to_paths[q] ELSE GNone]

\* A mutant of call_backwards_translate_path that asks for the whole of
\* every data source whatever the path.
call_backwards_translate_to_whole(definition, valid_path) ==
    [q \in definition.data |-> GWhole]

\* CachedQuibFuncCall._backwards_translate_path: first without shape and
\* type, then with them; {} when there is no data source or no translator.
call_backwards_translate_path(definition, valid_path) ==
    LET first == translate_backwards(definition, valid_path, FALSE)
        second == translate_backwards(definition, valid_path, TRUE)
        sources_to_paths == IF first.raised THEN second.sources_to_paths
                            ELSE first.sources_to_paths
    IN  IF definition.data = {} THEN << >>
        ELSE IF first.raised /\ second.raised THEN << >>
        ELSE [q \in definition.data |->
                 IF q \in DOMAIN sources_to_paths THEN sources_to_paths[q] ELSE GNone]

\* The paths _get_args_and_kwargs_valid_at_quibs_to_paths requests of the
\* argument quibs: quibs_to_valid_paths.get(quib) of a data source, [] of a
\* parameter.
call_requests(definition, quibs_to_valid_paths) ==
    [q \in definition.data \cup definition.parameters |->
        IF q \in definition.parameters THEN GWhole
        ELSE IF q \in DOMAIN quibs_to_valid_paths THEN quibs_to_valid_paths[q]
        ELSE GNone]

\* quib.get_value_valid_at_path(path) of the argument quibs: each becomes
\* valid where it is requested.
sources_valid_at(sources, requests) ==
    [q \in SourceQuibs |->
        IF q \in DOMAIN requests THEN sources[q] \cup Region(requests[q], SourceSize(q))
        ELSE sources[q]]

Value(fresh, draw) == [fresh |-> fresh, draw |-> draw]
\* func(*args, **kwargs) on the values obtained
call_func_on(definition, sources, draw) ==
    [i \in ResultPos(definition) |->
        Value(\A d \in DependsOn(definition, i) : d[2] \in sources[d[1]], draw)]

\* CachedQuibFuncCall._run_on_path
call_run_on_path(call, valid_path, draw) ==
    LET quibs_to_paths == IF valid_path.kind = "none" THEN << >>
                          ELSE call_backwards_translate_path(call.definition, valid_path)
        requests == call_requests(call.definition, quibs_to_paths)
        sources == sources_valid_at(call.sources, requests)
    IN  [result |-> call_func_on(call.definition, sources, draw),
         call |-> [call EXCEPT !.sources = sources,
                               !.last.requests = requests,
                               !.last.uncached_path = valid_path,
                               !.last.calls = @ + 1]]

\* CachedQuibFuncCall._run_on_uncached_paths_within_path
call_run_on_uncached_paths_within_path(call, valid_path, draw) ==
    LET m == ResultSize(call.definition)
        first_run(r) ==
            LET stored(c) == [result |-> c.value, call |-> [r.call EXCEPT !.cache = c]]
            IN  stored(ensure_cache_matches_result(r.call.cache, r.result))
        store(uncached_path, r) ==
            LET stored(c) ==
                    IF uncached_path.kind = "none"
                    THEN [result |-> r.result, call |-> [r.call EXCEPT !.cache = c]]
                    ELSE LET valid(c2) == [result |-> c2.value,
                                           call |-> [r.call EXCEPT !.cache = c2]]
                         IN  valid(set_valid_value_at_path(c, uncached_path, r.result, m))
            IN  stored(ensure_cache_matches_result(r.call.cache, r.result))
        loop(uncached_paths) ==
            IF uncached_paths = << >>
            THEN IF ~call.cache.exists
                 THEN first_run(call_run_on_path(call, GNone, draw))
                 ELSE [result |-> call.cache.value, call |-> call]
            ELSE store(uncached_paths[1], call_run_on_path(call, uncached_paths[1], draw))
    IN  loop(get_uncached_paths_matching_path(call.cache, valid_path, m))

\* A mutant of call_get_cache_behavior that takes the configured mode.
call_get_configured_cache_mode(call) == call.cache_mode
\* CachedQuibFuncCall._get_cache_behavior
call_get_cache_behavior(call) ==
    IF call.definition.is_random \/ call.definition.graphics THEN "on" ELSE call.cache_mode

\* CachedQuibFuncCall._should_cache; in mode auto the time of the run and the
\* size of the result decide.
call_should_cache(call, worth_caching) ==
    CASE call_get_cache_behavior(call) = "on" -> TRUE
      [] call_get_cache_behavior(call) = "off" -> FALSE
      [] OTHER -> worth_caching

\* CachedQuibFuncCall._reset_cache
call_reset_cache(call) ==
    [call EXCEPT !.cache = CacheNone, !.caching = (call_get_cache_behavior(call) = "on")]

\* CachedQuibFuncCall.run
call_run(call, valid_path, draw, worth_caching) ==
    LET decide(r) ==
            LET keep == r.call.caching \/ call_should_cache(r.call, worth_caching)
            IN  [result |-> r.result,
                 call |-> [r.call EXCEPT !.caching = keep,
                                        !.cache = IF keep THEN @ ELSE CacheNone]]
    IN  decide(call_run_on_uncached_paths_within_path(call, valid_path, draw))

\* What the last operation on the function quib was and did: the path and
\* the cache behavior or creation flags it was given, the last uncached path the function was
\* run on and the paths requested of the argument quibs for that run, the
\* number of runs of the function, the value returned and whether the
\* operation raised.
LastCall(name, path) ==
    [path |-> path, name |-> name, result |-> << >>, raised |-> FALSE, given |-> "",
     uncached_path |-> GNone, requests |-> << >>, calls |-> 0]
Draws(definition) == IF definition.is_random THEN 1 .. MaxDraws ELSE {0}

\* Quib.get_value_valid_at_path(path) as an operation of its own
call_get_value_valid_at_path(call, name, path, draw, worth_caching) ==
    LET done(r) == [r.call EXCEPT !.last.result = r.result]
    IN  done(call_run([call EXCEPT !.last = LastCall(name, path)], path, draw, worth_caching))

\* The function quib as its constructor leaves it: DEFAULT_CACHE_MODE, no
\* cache.
NewCall(definition, sources) ==
    call_reset_cache([cache |-> CacheNone, caching |-> FALSE,
                      definition |-> definition, cache_mode |-> "auto",
                      sources |-> sources, last |-> LastCall("create_quib", GNone)])

\* A mutant of func_definition_for_quib: every quib is evaluated when
\* created.
func_definition_evaluating_now(definition, flags) == [definition EXCEPT !.evaluate_now = TRUE]
\* The definition the quib is created with: a copy of the function's with
\* the flags of the creation set on it, or the function's own with no flag.
func_definition_for_quib(definition, flags) ==
    IF flags = "no flags" THEN definition
    ELSE [definition EXCEPT !.evaluate_now = (flags = "evaluate_now=True")]

\* create_quib: the quib is made and, with evaluate_now, its value is got.
create_quib(definition, sources, draw, worth_caching) ==
    IF definition.evaluate_now
    THEN call_get_value_valid_at_path(NewCall(definition, sources), "create_quib", GWhole,
                                      draw, worth_caching)
    ELSE NewCall(definition, sources)

\* The overridden function is called (_maybe_create_quib): with a quib among
\* the arguments it creates a quib, without one it calls the wrapped function
\* and returns its result.
MaybeCreateQuib ==
    /\ quib_function_call.definition.name = "none"
    /\ \E definition \in FuncDefinitions, is_there_a_quib_in_args \in BOOLEAN,
          flags \in {"no flags", "evaluate_now=True", "evaluate_now=False"} :
         \E sources \in [SourceQuibs -> SUBSET (0 .. (SourceLen - 1))],
            draw \in Draws(definition), worth_caching \in WorthCaching(definition, "auto") :
            /\ \A q \in SourceQuibs :
                  IF q \in definition.data \cup definition.parameters
                  THEN sources[q] \subseteq SourcePos(q)
                  ELSE sources[q] = SourcePos(q)
            /\ quib_function_call' =
                  IF is_there_a_quib_in_args
                  THEN LET created(call) == [call EXCEPT !.last.given = flags]
                       IN  created(create_quib(func_definition_for_quib(definition, flags),
                                               sources, draw, worth_caching))
                  ELSE [definition |-> [name |-> "none"],
                        last |-> [LastCall("call_wrapped_func", GNone) EXCEPT !.calls = 1]]
    /\ UNCHANGED <<ovars, gvars, tvars, cvars, pvars, inversion>>

\* Quib.get_value_valid_at_path(path); get_value() is the path [].
CallGetValueValidAtPath ==
    /\ quib_function_call.definition.name # "none"
    /\ \E path \in RequestPaths(ResultSize(quib_function_call.definition)),
          draw \in Draws(quib_function_call.definition),
          worth_caching \in WorthCaching(quib_function_call.definition,
                                        quib_function_call.cache_mode) :
          quib_function_call' =
              call_get_value_valid_at_path(quib_function_call, "get_value_valid_at_path", path,
                                           draw, worth_caching)
    /\ UNCHANGED <<ovars, gvars, tvars, cvars, pvars, inversion>>

\* Quib.cache_behavior (setter)
SetCacheBehavior ==
    /\ quib_function_call.definition.name # "none"
    /\ \E cache_behavior \in {"auto", "on", "off"} :
          quib_function_call' =
              IF quib_function_call.definition.is_random /\ cache_behavior # "on"
              THEN [quib_function_call EXCEPT
                       !.last = [LastCall("cache_behavior", GNone) EXCEPT
                                    !.raised = TRUE, !.given = cache_behavior]]
              ELSE [quib_function_call EXCEPT
                       !.cache_mode = cache_behavior,
                       !.last = [LastCall("cache_behavior", GNone) EXCEPT
                                    !.given = cache_behavior]]
    /\ UNCHANGED <<ovars, gvars, tvars, cvars, pvars, inversion>>

\* forwards_translate: the elements of the result a change of elements of
\* an argument affects; the whole result for a parameter and where no
\* translator is found.
affected_by(definition, q, changed) ==
    IF changed = {} THEN {}
    ELSE IF q \in definition.parameters \/ definition.translators \in {"none", "reduction"}
    THEN ResultPos(definition)
    ELSE IF definition.translators = "transpositional" /\ q = "b"
    THEN {i + SourceLen : i \in changed}
    ELSE changed

\* QuibHandler.invalidate_self
call_invalidate_self(call, path) ==
    LET s1 == IF path.kind = "whole" THEN call_reset_cache(call) ELSE call
    IN  IF s1.cache.exists
        THEN [s1 EXCEPT !.cache = set_invalid_at_path(@, path, ResultSize(call.definition))]
        ELSE s1

\* An argument quib is invalidated at elements of its value and invalidates
\* its child, the function quib, at the paths they translate to.
InvalidateSource ==
    /\ quib_function_call.definition.name # "none"
    /\ \E q \in quib_function_call.definition.data \cup quib_function_call.definition.parameters :
         \E changed \in {Region(path, SourceSize(q)) : path \in RequestPaths(SourceSize(q)) \ {GNone}} :
            LET affected == affected_by(quib_function_call.definition, q, changed)
                path == IF affected = ResultPos(quib_function_call.definition)
                        THEN GWhole ELSE GMask(affected)
                invalidated == call_invalidate_self(quib_function_call, path)
            IN  quib_function_call' =
                    [invalidated EXCEPT !.sources[q] = @ \ changed,
                                        !.last = LastCall("invalidate", path)]
    /\ UNCHANGED <<ovars, gvars, tvars, cvars, pvars, inversion>>

FInit == OvInit
FNext == MaybeCreateQuib \/ CallGetValueValidAtPath \/ SetCacheBehavior \/ InvalidateSource
SpecFuncCall == FInit /\ [][FNext]_vars

\* ------------------------------------------------------- the cache itself
\* A shallow cache of an ndarray or of a list of ArrLen elements, addressed
\* as the function call addresses it: at the whole object, at a slice, or at
\* an array-style component (a boolean mask or fancy index).  A list can be
\* indexed by an integer or a slice only: with an array-style component
\* get_uncached_paths of a list cache raises TypeError, which the callers
\* catch (uncached_paths = [[]] in the function quib, [path] in
\* get_uncached_paths_matching_path), and the sanity assertion that nothing
\* is uncached after set_valid_value_at_path does not hold.
CacheKinds == {"ndarray", "list"}
GSlice(lo, hi) == [kind |-> "slice", set |-> lo .. (hi - 1)]
CachePaths ==
    {GWhole} \cup {GSlice(s[1], s[2]) : s \in {t \in (0 .. ArrLen) \X (0 .. ArrLen) : t[1] < t[2]}}
             \cup {GMask(S) : S \in (SUBSET (0 .. (ArrLen - 1))) \ {{}}}
\* The component cannot index the cached object.
cannot_index(kind, path) == kind = "list" /\ path.kind = "mask"
\* cache.get_uncached_paths(path), or TypeError
cache_get_uncached_paths(kind, c, path) ==
    IF cannot_index(kind, path) THEN [raised |-> TRUE, paths |-> << >>]
    ELSE [raised |-> FALSE, paths |-> get_uncached_paths(c, path, ArrLen)]
\* cache.set_valid_value_at_path(path, value); what a list cache does with
\* an array-style component is not decided here: it stores the value at
\* the region or leaves the cache as it is.
cache_set_valid_value_at_path(kind, c, path, value, stored) ==
    IF cannot_index(kind, path) /\ ~stored THEN c
    ELSE set_valid_value_at_path(c, path, value, ArrLen)
\* cache.set_invalid_at_path(path); a list cache with an array-style
\* component invalidates the region or everything.
cache_set_invalid_at_path(kind, c, path, stored) ==
    IF cannot_index(kind, path) /\ ~stored THEN set_invalid_at_path(c, GWhole, ArrLen)
    ELSE set_invalid_at_path(c, path, ArrLen)

CacheValues == {[i \in 0 .. (ArrLen - 1) |-> v] : v \in {1, 2}}
CacheCall(kind, c, name, path) ==
    [cache |-> c, definition |-> [name |-> "none"],
     last |-> [kind |-> kind, path |-> path, name |-> name,
               uncached |-> cache_get_uncached_paths(kind, c, path)]]
\* set_valid_value_at_path followed by the sanity check of the function quib
SetValidValueAtPath ==
    \E path \in CachePaths, value \in CacheValues, stored \in BOOLEAN :
        /\ quib_function_call' =
              CacheCall(quib_function_call.last.kind,
                        cache_set_valid_value_at_path(quib_function_call.last.kind,
                                                      quib_function_call.cache, path, value, stored),
                        "set_valid_value_at_path", path)
        /\ UNCHANGED <<ovars, gvars, tvars, cvars, pvars, inversion>>
\* set_invalid_at_path followed by get_uncached_paths of the same path
SetInvalidAtPath ==
    \E path \in CachePaths, stored \in BOOLEAN :
        /\ quib_function_call' =
              CacheCall(quib_function_call.last.kind,
                        cache_set_invalid_at_path(quib_function_call.last.kind,
                                                  quib_function_call.cache, path, stored),
                        "set_invalid_at_path", path)
        /\ UNCHANGED <<ovars, gvars, tvars, cvars, pvars, inversion>>
\* A cache is created for a first result, all of it invalid.
KInit ==
    /\ \E kind \in CacheKinds, result \in CacheValues :
          quib_function_call = CacheCall(kind, create_cache(result), "create_cache", GWhole)
    /\ pta = << >>
    /\ active = NoAssignment
    /\ op = Call("init", NoAssignment, NoRet)
    /\ GraphIdle
KNext == SetValidValueAtPath \/ SetInvalidAtPath
SpecCache == KInit /\ [][KNext]_vars

\* ------------------------------------------- Overrider: replace_assignments
\* The mappings a saved file can hold: what an Overrider holds after up to
\* MaxEntries assignments.
StoredAssignments == {without_indexed_cls(a) : a \in UserAssignments}
SavedPathsToAssignments ==
    LET one == {add_to_paths_to_assignments(<< >>, a) : a \in StoredAssignments}
    IN  {<< >>} \cup one
          \cup {add_to_paths_to_assignments(e, a) : e \in one, a \in StoredAssignments}
\* Overrider.replace_assignments: the new mapping, no active assignment, and
\* the changed paths it returns.
replace_assignments(entries, new_paths_to_assignments) ==
    [paths_to_assignments |-> new_paths_to_assignments,
     active_assignment |-> NoAssignment,
     changed_paths |-> <<WholePath>>]
\* QuibHandler.load_assignments (load_from_binary), Overrider.clear_assignments:
\* the mapping is replaced and every changed path returned is invalidated.
ReplaceAssignments ==
    \E new_paths_to_assignments \in SavedPathsToAssignments :
        LET replaced == replace_assignments(pta, new_paths_to_assignments)
        IN  /\ pta' = replaced.paths_to_assignments
            /\ active' = replaced.active_assignment
            /\ op' = Call("replace_assignments", NoAssignment,
                          [invalidated |-> replaced.changed_paths, replaced |-> pta])
            /\ UNCHANGED <<gvars, tvars, cvars, pvars, inversion, quib_function_call>>
RNext == OvNext \/ ReplaceAssignments
SpecReplace == OvInit /\ [][RNext]_vars

\* --------------------------------- the graph: invalidation of an input quib
\* QuibHandler.invalidate_and_redraw_at_path on the input quib a of the chain
\* a -> b -> c, with what the call found and did kept: the path, the paths it
\* translates to in b, b's overrider, and c's cache before and after.
InvalidateInputAtPath ==
    \E path \in {GWhole} \cup IndexMasks(func, "a") :
        LET s == invalidate_children_at_path(func, ov, [cache |-> cache, caching |-> caching],
                                             "a", path)
        IN  /\ FuncCallIdle
            /\ cache' = s.cache
            /\ caching' = s.caching
            /\ gop' = NoException
            /\ quib_function_call' =
                  [definition |-> [name |-> "none"],
                   last |-> [path |-> path, name |-> "invalidate_and_redraw_at_path",
                             new_paths |-> get_paths_for_children_invalidation(func, "b", path),
                             before |-> cache["c"], after |-> s.cache["c"],
                             overrider |-> ov["b"]]]
            /\ UNCHANGED <<func, ov, allow, inversion, ovars, tvars, cvars, pvars>>
\* The overrides and value requests made between two invalidations.
OverrideOrRequest == FuncCallIdle /\ (HandlerOverride \/ GetValueValidAtPath)
\* What was kept of the invalidation is dropped.
InvalidationSeen ==
    /\ ~FuncCallIdle
    /\ quib_function_call' = NoFuncCall
    /\ UNCHANGED <<func, ov, cache, caching, allow, gop, inversion, ovars, tvars, cvars, pvars>>
ANextInvalidation == OverrideOrRequest \/ InvalidateInputAtPath \/ InvalidationSeen
SpecAbsorb == GInit /\ [][ANextInvalidation]_vars

\* ------------------------------------------- the child of a changed parent
\* forwards_translate(func_call, {source: path}, shape, type_): the paths of
\* the result a change of the source at path affects, or
\* NoTranslatorsFoundException.  A source no path is reported for affects
\* nothing.
translate_forwards(definition, q, path, with_metadata) ==
    LET found(paths) == [raised |-> FALSE, paths |-> paths]
        changed == Region(path, SourceSize(q))
    IN  CASE definition.translators = "elementwise" -> found(<<path>>)
          [] definition.translators = "reduction" -> found(<<GWhole>>)
          [] definition.translators = "transpositional" ->
                found(<<GMask(IF q = "b" THEN {i + SourceLen : i \in changed} ELSE changed)>>)
          [] definition.translators = "with_shape" /\ with_metadata -> found(<<path>>)
          [] OTHER -> [raised |-> TRUE, paths |-> << >>]

\* A mutant of get_paths_for_children_invalidation_of that lets the failure
\* of the second translation through.
get_paths_for_children_invalidation_uncaught(definition, invalidator_quib, path) ==
    LET first == translate_forwards(definition, invalidator_quib, path, FALSE)
    IN  IF invalidator_quib \notin definition.data THEN [raised |-> FALSE, paths |-> <<GWhole>>]
        ELSE IF ~first.raised THEN first
        ELSE translate_forwards(definition, invalidator_quib, path, TRUE)

\* QuibHandler._get_paths_for_children_invalidation: [[]] for a parameter
\* source; else the translation without shape and type, on
\* NoTranslatorsFoundException the one with them, and on that again [[]].
get_paths_for_children_invalidation_of(definition, invalidator_quib, path) ==
    LET first == translate_forwards(definition, invalidator_quib, path, FALSE)
        second == translate_forwards(definition, invalidator_quib, path, TRUE)
    IN  IF invalidator_quib \notin definition.data THEN [raised |-> FALSE, paths |-> <<GWhole>>]
        ELSE IF ~first.raised THEN first
        ELSE IF ~second.raised THEN second
        ELSE [raised |-> FALSE, paths |-> <<GWhole>>]

\* The loop of QuibHandler._invalidate_quib_with_children_at_path over the
\* new paths: invalidate_self at each.
RECURSIVE call_invalidate_at_paths(_, _, _)
call_invalidate_at_paths(call, new_paths, k) ==
    IF k > Len(new_paths) THEN call
    ELSE call_invalidate_at_paths(
            IF new_paths[k].kind = "none" THEN call ELSE call_invalidate_self(call, new_paths[k]),
            new_paths, k + 1)

\* QuibHandler._invalidate_quib_with_children_at_path of the function quib,
\* called by invalidate_and_redraw_at_path(path) of its argument quib; an
\* exception of the translation ends the call before anything is invalidated.
call_invalidate_quib_with_children_at_path(call, invalidator_quib, path) ==
    LET new_paths == get_paths_for_children_invalidation_of(call.definition, invalidator_quib, path)
        invalidated == IF new_paths.raised THEN call
                       ELSE call_invalidate_at_paths(call, new_paths.paths, 1)
    IN  [invalidated EXCEPT
            !.sources[invalidator_quib] = @ \ Region(path, SourceSize(invalidator_quib)),
            !.last = [LastCall("invalidate_quib_with_children_at_path", path) EXCEPT
                         !.raised = new_paths.raised,
                         !.given = invalidator_quib,
                         !.requests = new_paths.paths]]

\* The parent quib changes at a path and invalidates its child.
InvalidateAndRedrawSourceAtPath ==
    /\ quib_function_call.definition.name # "none"
    /\ \E q \in quib_function_call.definition.data \cup quib_function_call.definition.parameters :
         \E path \in RequestPaths(SourceSize(q)) \ {GNone} :
            quib_function_call' =
                call_invalidate_quib_with_children_at_path(quib_function_call, q, path)
    /\ UNCHANGED <<ovars, gvars, tvars, cvars, pvars, inversion>>

WNext == MaybeCreateQuib \/ CallGetValueValidAtPath \/ InvalidateAndRedrawSourceAtPath
SpecForward == FInit /\ [][WNext]_vars

\* ------------------------------------------------------- the diamond graph
\* root = iquib(array); left = func.left(root); right = func.right(root);
\* join = func.join(left, right).  Each quib has GraphLen elements.
DagQuibs == {"root", "left", "right", "join"}
DagFuncQuibs == {"left", "right", "join"}
DagParents(n) ==
    CASE n = "join" -> <<"left", "right">>
      [] n \in {"left", "right"} -> <<"root">>
      [] OTHER -> << >>
\* QuibHandler.children
DagChildren(n) == {c \in DagQuibs : \E k \in DOMAIN DagParents(c) : DagParents(c)[k] = n}
\* The functions: element-wise ones and a transposition of the root; their
\* element-wise sum, or a user function of left with right as a parameter,
\* for which no translator is registered.
DagGraphs ==
    {[left |-> "vectorize", right |-> "flip", join |-> "add"],
     [left |-> "flip", right |-> "vectorize", join |-> "user_function"]}
\* FuncCall.get_data_sources
dag_get_data_sources(f, n) ==
    IF n = "join" /\ f[n] = "user_function" THEN {"left"}
    ELSE {DagParents(n)[k] : k \in DOMAIN DagParents(n)}
\* self.func(*args)
dag_call_func(f, n, args) ==
    IF n = "join"
    THEN [i \in 0 .. (GraphLen - 1) |->
             args[1][i] + (IF f[n] = "add" THEN args[2][i] ELSE args[2][0])]
    ELSE call_func(f[n], args[1])
\* The orders in which a loop over a set of quibs can visit it.
Orders(S) == {o \in [1 .. Cardinality(S) -> S] : \A q \in S : \E k \in DOMAIN o : o[k] = q}
Reversed(o) == [k \in DOMAIN o |-> o[Len(o) + 1 - k]]

\* CachedQuibFuncCall._backwards_translate_path: the path of each data
\* source, None where the translation names none.
dag_backwards_translate_path(f, n, q, valid_path) ==
    IF valid_path.kind = "none" \/ f[n] = "user_function" THEN GNone
    ELSE IF f[n] = "add" THEN valid_path
    ELSE backwards_translate(f[n], valid_path, GraphLen)

RECURSIVE dag_get_value_valid_at_path(_, _, _, _, _)

\* CachedQuibFuncCall._get_args_and_kwargs_valid_at_quibs_to_paths and
\* _run_on_path: a parameter is requested at [], a data source at its
\* translated path.
dag_run_on_path(f, ovs, st, n, valid_path) ==
    LET request(q) ==
            IF q \in dag_get_data_sources(f, n)
            THEN dag_backwards_translate_path(f, n, q, valid_path) ELSE GWhole
        RECURSIVE args_from(_, _, _)
        args_from(k, s, args) ==
            IF k > Len(DagParents(n))
            THEN [st |-> s, result |-> dag_call_func(f, n, args)]
            ELSE LET got(pr) == args_from(k + 1, pr.st, Append(args, pr.result))
                 IN  got(dag_get_value_valid_at_path(f, ovs, s, DagParents(n)[k],
                                                     request(DagParents(n)[k])))
    IN  args_from(1, st, << >>)

\* CachedQuibFuncCall._run_on_uncached_paths_within_path
dag_run_on_uncached_paths_within_path(f, ovs, st, n, valid_path) ==
    LET first_run(r) ==
            LET stored(c) == [st |-> [r.st EXCEPT !.cache[n] = c], result |-> c.value]
            IN  stored(ensure_cache_matches_result(r.st.cache[n], r.result))
        store(uncached_path, r) ==
            LET stored(c) ==
                    IF uncached_path.kind = "none"
                    THEN [st |-> [r.st EXCEPT !.cache[n] = c], result |-> r.result]
                    ELSE LET valid(c2) == [st |-> [r.st EXCEPT !.cache[n] = c2],
                                           result |-> c2.value]
                         IN  valid(set_valid_value_at_path(c, uncached_path, r.result, GraphLen))
            IN  stored(ensure_cache_matches_result(r.st.cache[n], r.result))
        loop(uncached_paths) ==
            IF uncached_paths = << >>
            THEN IF ~st.cache[n].exists
                 THEN first_run(dag_run_on_path(f, ovs, st, n, GNone))
                 ELSE [st |-> st, result |-> st.cache[n].value]
            ELSE store(uncached_paths[1], dag_run_on_path(f, ovs, st, n, uncached_paths[1]))
    IN  loop(get_uncached_paths_matching_path(st.cache[n], valid_path, GraphLen))

\* CachedQuibFuncCall.run
dag_run(f, ovs, st, n, valid_path) ==
    LET decide(r) ==
            LET keep == r.st.caching[n] \/ should_cache
            IN  [st |-> [cache |-> IF keep THEN r.st.cache
                                   ELSE [r.st.cache EXCEPT ![n] = CacheNone],
                         caching |-> [r.st.caching EXCEPT ![n] = keep]],
                 result |-> r.result]
    IN  decide(dag_run_on_uncached_paths_within_path(f, ovs, st, n, valid_path))

\* QuibHandler.get_value_valid_at_path
dag_get_value_valid_at_path(f, ovs, st, n, path) ==
    LET with_overrides(r) == [st |-> r.st, result |-> overridden(ovs[n], r.result)]
    IN  IF n = "root" THEN [st |-> st, result |-> overridden(ovs[n], InputValue)]
        ELSE with_overrides(dag_run(f, ovs, st, n, path))

\* QuibHandler._get_paths_for_children_invalidation
dag_get_paths_for_children_invalidation(f, n, invalidator_quib, path) ==
    IF invalidator_quib \notin dag_get_data_sources(f, n) \/ f[n] = "user_function"
    THEN <<GWhole>>
    ELSE IF f[n] = "add" THEN forwards_translate("vectorize", path, GraphLen)
    ELSE forwards_translate(f[n], path, GraphLen)

\* A mutant of dag_invalidate_self: a cache invalid at the path already is
\* taken to be up to date and marked valid there.
dag_invalidate_self_toggling(f, st, n, path) ==
    LET s1 == IF path.kind = "whole" THEN reset_cache(st, n) ELSE st
    IN  IF s1.cache[n].exists
        THEN [s1 EXCEPT !.cache[n].valid =
                 IF Region(path, GraphLen) \cap @ = {} THEN @ \cup Region(path, GraphLen)
                 ELSE @ \ Region(path, GraphLen)]
        ELSE s1

\* QuibHandler.invalidate_self
dag_invalidate_self(f, st, n, path) ==
    LET s1 == IF path.kind = "whole" THEN reset_cache(st, n) ELSE st
    IN  IF s1.cache[n].exists
        THEN [s1 EXCEPT !.cache[n] = set_invalid_at_path(@, path, GraphLen)]
        ELSE s1

\* QuibHandler._is_completely_overridden_at_first_component
dag_is_completely_overridden_at_first_component(f, ovs, st, n, path) ==
    LET answer(r) ==
            [st |-> r.st,
             ans |-> get_uncached_paths(
                         apply_assignments_to_cache(r.result, create_cache(r.result),
                                                    ovs[n], 1, GraphLen),
                         path, GraphLen) = << >>]
    IN  IF ovs[n] = << >> THEN [st |-> st, ans |-> FALSE]
        ELSE answer(dag_get_value_valid_at_path(f, ovs, st, n, GNone))

RECURSIVE dag_invalidate_children_at_path(_, _, _, _, _, _)

\* QuibHandler._invalidate_quib_with_children_at_path
dag_invalidate_quib_with_children_at_path(f, ovs, st, n, invalidator_quib, path, order) ==
    LET descend(new_path, co) ==
            IF path.kind = "whole" \/ ~co.ans
            THEN dag_invalidate_children_at_path(f, ovs, co.st, n, new_path, order)
            ELSE co.st
        invalidated(new_path, s1) ==
            descend(new_path,
                    IF path.kind = "whole" THEN [st |-> s1, ans |-> FALSE]
                    ELSE dag_is_completely_overridden_at_first_component(f, ovs, s1, n, new_path))
        RECURSIVE loop(_, _)
        loop(new_paths, s) ==
            IF new_paths = << >> THEN s
            ELSE loop(Tail(new_paths),
                      invalidated(new_paths[1], dag_invalidate_self(f, s, n, new_paths[1])))
    IN  loop(dag_get_paths_for_children_invalidation(f, n, invalidator_quib, path), st)

\* QuibHandler._invalidate_children_at_path: for child in set(self.children),
\* in the order the set yields them (order gives it for every quib).
dag_invalidate_children_at_path(f, ovs, st, n, path, order) ==
    LET RECURSIVE loop(_, _)
        loop(k, s) ==
            IF k > Len(order[n]) THEN s
            ELSE loop(k + 1, dag_invalidate_quib_with_children_at_path(
                                 f, ovs, s, order[n][k], n, path, order))
    IN  loop(1, st)

\* The iteration orders of the children sets.
DagOrders == {o \in [DagQuibs -> UNION {Orders(DagChildren(n)) : n \in DagQuibs}] :
                 \A n \in DagQuibs : o[n] \in Orders(DagChildren(n))}
ReversedOrder(order) == [n \in DagQuibs |-> Reversed(order[n])]

\* What is seen of a cache: which elements are valid and their values.
CacheState(st) ==
    [n \in DagFuncQuibs |->
        [value |-> IF st.cache[n].exists
                   THEN [i \in st.cache[n].valid |-> st.cache[n].value[i]] ELSE << >>,
         valid |-> IF st.cache[n].exists THEN st.cache[n].valid ELSE {}]]

\* The last operation on the diamond: for an invalidation the quib, the path
\* and the iteration order, and what the caches would be had the children
\* been visited in the reverse order.
DagCall(name, n, path, order, reversed) ==
    [definition |-> [name |-> "none"],
     last |-> [path |-> path, name |-> name, quib |-> n, order |-> order,
               reversed |-> reversed]]

DInit ==
    /\ func \in DagGraphs
    /\ ov = [n \in DagQuibs |-> << >>]
    /\ cache = [n \in DagFuncQuibs |-> CacheNone]
    /\ caching = [n \in DagFuncQuibs |-> TRUE]
    /\ allow = [n \in DagQuibs |-> TRUE]
    /\ gop = NoException
    /\ CallsIdle
    /\ ChoiceIdle
    /\ ProjectIdle
    /\ quib_function_call = DagCall("init", "root", GNone, << >>, << >>)
    /\ pta = << >>
    /\ active = NoAssignment
    /\ op = Call("init", NoAssignment, NoRet)

DagPaths == {GWhole} \cup {GMask({i}) : i \in 0 .. (GraphLen - 1)}
DagAssignments ==
    {Assignment(<<IndexComponent(0, "ndarray")>>, Scalar(7)),
     Assignment(WholePath, ArrayValue([i \in 0 .. (GraphLen - 1) |-> 7]))}

\* QuibHandler.override of a function quib of the diamond that is not
\* overridden yet (allow_overriding is set)
DagOverride ==
    \E n \in {q \in DagFuncQuibs : ov[q] = << >>}, assignment \in DagAssignments,
       order \in DagOrders :
        LET ov1 == [ov EXCEPT ![n] = add_to_paths_to_assignments(@, without_indexed_cls(assignment))]
            st == [cache |-> cache, caching |-> caching]
            s1 == IF assignment.path = << >> THEN reset_cache(st, n) ELSE st
            s2 == dag_invalidate_children_at_path(func, ov1, s1, n,
                                                  FirstComponent(assignment.path), order)
        IN  /\ ov' = ov1
            /\ cache' = s2.cache
            /\ caching' = s2.caching
            /\ quib_function_call' = DagCall("override", "root", GNone, << >>, << >>)
            /\ UNCHANGED <<func, allow, gop, ovars, tvars, cvars, pvars, inversion>>

\* Quib.get_value_valid_at_path
DagGetValueValidAtPath ==
    \E n \in DagFuncQuibs, path \in {GNone} \cup DagPaths :
        LET r == dag_get_value_valid_at_path(func, ov, [cache |-> cache, caching |-> caching],
                                             n, path)
        IN  /\ cache' = r.st.cache
            /\ caching' = r.st.caching
            /\ quib_function_call' = DagCall("get_value_valid_at_path", "root", GNone, << >>, << >>)
            /\ UNCHANGED <<func, ov, allow, gop, ovars, tvars, cvars, pvars, inversion>>

\* QuibHandler.invalidate_and_redraw_at_path
DagInvalidateAndRedrawAtPath ==
    \E n \in DagQuibs \ {"join"}, path \in DagPaths, order \in DagOrders :
        LET st == [cache |-> cache, caching |-> caching]
            s == dag_invalidate_children_at_path(func, ov, st, n, path, order)
            r == dag_invalidate_children_at_path(func, ov, st, n, path, ReversedOrder(order))
        IN  /\ cache' = s.cache
            /\ caching' = s.caching
            /\ quib_function_call' =
                   DagCall("invalidate_and_redraw_at_path", n, path, order, CacheState(r))
            /\ UNCHANGED <<func, ov, allow, gop, ovars, tvars, cvars, pvars, inversion>>

DNext == DagOverride \/ DagGetValueValidAtPath \/ DagInvalidateAndRedrawAtPath
SpecDiamond == DInit /\ [][DNext]_vars

\* ------------------------------------------------- the redraw after a call
\* Which quibs can create graphics (Quib.func_can_create_graphics) and what
\* the call in progress or last made asked to redraw: how often each quib
\* was handed to redraw_quibs_with_graphics_or_add_in_aggregate_mode.
GraphicsQuibs(graphics, called, requests) ==
    [definition |-> [name |-> "none"], graphics |-> graphics, requests |-> requests,
     called |-> called]
NoRequests == [q \in Quibs |-> 0]

\* A mutant of get_descendant_graphics_quibs_recursively that keeps every
\* descendant.
get_descendants_with_or_without_graphics(descendants, graphics) == descendants

\* QuibHandler._get_descendant_graphics_quibs_recursively: the set of the
\* descendants that can create graphics.
get_descendant_graphics_quibs_recursively(descendants, graphics) ==
    {child \in descendants : child \in graphics}

\* QuibHandler._redraw hands the set over: each of its quibs once.
redraw(descendants, graphics) ==
    [q \in Quibs |->
        IF q \in get_descendant_graphics_quibs_recursively(descendants, graphics)
        THEN 1 ELSE 0]

VInit ==
    /\ CallsIdle
    /\ ChoiceIdle
    /\ ProjectIdle
    /\ quib_function_call = GraphicsQuibs({}, FALSE, NoRequests)
    /\ pta = << >>
    /\ active = NoAssignment
    /\ op = Call("init", NoAssignment, NoRet)
    /\ func = [b |-> "vectorize", c |-> "flip"]
    /\ ov = [n \in Nodes |-> << >>]
    /\ cache = [n \in FuncNodes |-> CacheNone]
    /\ caching = [n \in FuncNodes |-> TRUE]
    /\ allow = [n \in Nodes |-> n = "a"]
    /\ gop = NoException

\* The factory: a new quib of a function that can or cannot create graphics
\* is registered as a child of each of its parents.
CreateQuibOfFunc ==
    /\ ~Running
    /\ nquibs < MaxQuibs
    /\ \E parents \in SUBSET (1 .. nquibs), func_can_create_graphics \in BOOLEAN :
          /\ children' = [q \in Quibs |-> IF q \in parents THEN children[q] \cup {nquibs + 1}
                                          ELSE children[q]]
          /\ quib_function_call' =
                GraphicsQuibs(quib_function_call.graphics
                                 \cup (IF func_can_create_graphics THEN {nquibs + 1} ELSE {}),
                              FALSE, NoRequests)
    /\ nquibs' = nquibs + 1
    /\ tcall' = NoCall
    /\ UNCHANGED <<stack, ovars, gvars, cvars, pvars, inversion>>

\* QuibHandler.invalidate_and_redraw_at_path: the call
CallInvalidateAndRedraw ==
    /\ ~Running
    /\ \E q \in 1 .. nquibs :
          Push(<< >>, invalidate_children(q),
               [quib |-> q, phase |-> "invalidate", edges |-> 0, quibs |-> {}])
    /\ quib_function_call' = GraphicsQuibs(quib_function_call.graphics, FALSE, NoRequests)
    /\ UNCHANGED <<children, nquibs, ovars, gvars, cvars, pvars, inversion>>

\* One iteration of the loop of get_descendants, or its return; the return
\* of the outermost call is followed by the request to redraw.
GetDescendantsStepOfRedraw ==
    /\ tcall.phase = "redraw"
    /\ stack # << >>
    /\ IF Top.pending = {}
       THEN IF Len(stack) = 1
            THEN /\ stack' = << >>
                 /\ tcall' = [tcall EXCEPT !.phase = "returned", !.quibs = Top.acc]
                 /\ quib_function_call' =
                       GraphicsQuibs(quib_function_call.graphics, TRUE,
                                     redraw(Top.acc, quib_function_call.graphics))
            ELSE /\ stack' = [Pop EXCEPT ![Len(stack) - 1].acc = @ \cup Top.acc]
                 /\ tcall' = tcall
                 /\ UNCHANGED quib_function_call
       ELSE /\ \E child \in Top.pending :
                 Push([stack EXCEPT ![Len(stack)].pending = @ \ {child}],
                      get_descendants(child), tcall)
            /\ UNCHANGED quib_function_call
    /\ UNCHANGED <<children, nquibs, ovars, gvars, cvars, pvars, inversion>>

VNext ==
    \/ CreateQuibOfFunc
    \/ CallInvalidateAndRedraw
    \/ InvalidateChildrenStep
    \/ InvalidateQuibStep
    \/ Redraw
    \/ GetDescendantsStepOfRedraw
SpecRedraw == VInit /\ [][VNext]_vars

\* ------------------------------------------------ the application of a group
\* What applying a group does, in order: [name, quib] for each step of the
\* handlers on a quib, and the entry and exit of the two modes.
Event(name, q) == [name |-> name, quib |-> q]

\* A mutant of quib_changes that puts the overrides first.
quib_changes_overrides_first(group) ==
    [k \in DOMAIN group.overrides |-> [kind |-> "AssignmentToQuib", quib |-> group.overrides[k].quib]]
    \o [k \in DOMAIN group.override_removals |->
           [kind |-> "OverrideRemoval", quib |-> group.override_removals[k]]]

\* OverrideGroup.quib_changes: the override removals, then the overrides.
quib_changes(group) ==
    [k \in DOMAIN group.override_removals |->
        [kind |-> "OverrideRemoval", quib |-> group.override_removals[k]]]
    \o [k \in DOMAIN group.overrides |-> [kind |-> "AssignmentToQuib", quib |-> group.overrides[k].quib]]

\* QuibHandler.override inside the two modes: add_assignment, the
\* invalidation, the redraw set aside, and outside a drag the push.
override_events(q, drag) ==
    <<Event("add_assignment", q), Event("invalidate_children_at_path", q),
      Event("redraw_quibs_with_graphics_or_add_in_aggregate_mode", q)>>
    \o (IF ~is_within_drag(drag) THEN <<Event("push_assignment_to_undo_stack", q)>> ELSE << >>)

\* QuibHandler.remove_override inside the two modes: remove_assignment, the
\* push if anything was removed and no drag is under way, the invalidation
\* and the redraw set aside.
remove_override_events(q, is_overridden, drag) ==
    <<Event("remove_assignment", q)>>
    \o (IF is_overridden /\ ~is_within_drag(drag)
        THEN <<Event("push_assignment_to_undo_stack", q)>> ELSE << >>)
    \o <<Event("invalidate_children_at_path", q),
         Event("redraw_quibs_with_graphics_or_add_in_aggregate_mode", q)>>

\* OverrideGroup.apply: the quib changes are applied in order within
\* undo_group_mode and aggregate_redraw_mode; leaving the redraw mode redraws
\* what was set aside, leaving the undo group closes it.
RECURSIVE quib_change_events(_, _, _, _)
quib_change_events(changes, k, overridden_values, drag) ==
    IF k > Len(changes) THEN << >>
    ELSE (IF changes[k].kind = "OverrideRemoval"
          THEN remove_override_events(changes[k].quib, overridden_values[changes[k].quib] # 0, drag)
          ELSE override_events(changes[k].quib, drag))
         \o quib_change_events(changes, k + 1, overridden_values, drag)
apply_events(group, overridden_values, drag) ==
    IF Len(quib_changes(group)) = 0
    THEN <<Event("undo_group_mode.enter", "child"), Event("aggregate_redraw_mode.enter", "child"),
           Event("aggregate_redraw_mode.exit", "child"), Event("undo_group_mode.exit", "child")>>
    ELSE <<Event("undo_group_mode.enter", "child"), Event("aggregate_redraw_mode.enter", "child")>>
         \o quib_change_events(quib_changes(group), 1, overridden_values, drag)
         \o <<Event("redraw", "child"), Event("aggregate_redraw_mode.exit", "child"),
              Event("undo_group_mode.exit", "child")>>

\* Quib.get_value on the graphs of test_override_choice.py: an override at
\* [...] gives every element its value; an input quib holds 1 (grandparent2
\* holds 2); child = parent1 + 1, or the function without inverter of
\* parent1, or concatenate((parent1, parent2)); a parent is grandparent * 1.
RECURSIVE quib_value(_, _, _)
quib_value(sh, overridden_values, q) ==
    LET default ==
            CASE Parents(sh, q) = << >> -> IF q = "grandparent2" THEN <<2>> ELSE <<1>>
              [] q = "child" /\ sh = "diverged_quib_graph" ->
                    quib_value(sh, overridden_values, "parent1")
                    \o quib_value(sh, overridden_values, "parent2")
              [] q = "child" /\ sh # "no_inverter" ->
                    <<quib_value(sh, overridden_values, "parent1")[1] + 1>>
              [] OTHER -> quib_value(sh, overridden_values, Parents(sh, q)[1])
    IN  IF overridden_values[q] # 0 THEN [i \in DOMAIN default |-> overridden_values[q]]
        ELSE default

\* QuibHandler.apply_assignment, in or outside a drag: the group is chosen
\* and applied.
ApplyOverrideGroup ==
    /\ cresult = NoResult
    /\ \E q \in QuibsOf(fixture), assignment \in ChoiceAssignments, drag \in BOOLEAN :
         \E outcome \in get_overrides_for_assignment(fixture, callow, choice_cache, q, assignment) :
            /\ choice_cache' = outcome.choices
            /\ cov' = apply(cov, group_to_apply(outcome))
            /\ cresult' = Result("OverrideGroup.apply", q, assignment, outcome,
                                 apply_events(group_to_apply(outcome), cov, drag))
    /\ UNCHANGED <<fixture, callow, ovars, gvars, tvars, pvars, inversion, quib_function_call>>

\* Quib.allow_overriding (setter), before anything is assigned, as the tests
\* set it.
SetAllowOverridingFirst ==
    /\ cov = [q \in CQuibs |-> 0]
    /\ choice_cache = {}
    /\ SetAllowOverriding

\* Quib.allow_overriding (setter) of the child, at any time.
SetAllowOverridingOfChild ==
    /\ cresult = NoResult
    /\ \E allow_overriding \in BOOLEAN :
          callow' = [callow EXCEPT !["child"] = allow_overriding]
    /\ cresult' = NoResult
    /\ UNCHANGED <<fixture, cov, choice_cache, ovars, gvars, tvars, pvars, inversion, quib_function_call>>

ONext ==
    \/ SetAllowOverridingFirst
    \/ SetAllowOverridingOfChild
    \/ ApplyOverrideGroup
    \/ HandleOutcome
SpecApply == CInit /\ [][ONext]_vars

\* ------------------------------- the Overrider on data whose shape changed
\* The function's result after an upstream change: arange of either length.
DataLens == {ArrLen - 1, ArrLen}
ArangeOf(m) == [i \in 0 .. (m - 1) |-> i]

\* Whether the components of a path apply to an array: an index must be within
\* it, a slice is cut to it.
path_applies(obj, path) ==
    path = << >> \/ path[1].kind = "slice" \/ path[1].lo \in DOMAIN obj

\* deep_get: the sub-value a path addresses; it raises when a component does
\* not apply.
deep_get_or_raise(obj, path) ==
    IF ~path_applies(obj, path) THEN [value |-> NoValue, raised |-> "IndexError"]
    ELSE IF path = << >> THEN [value |-> ArrayValue(obj), raised |-> "None"]
    ELSE IF path[1].kind = "index" THEN [value |-> Scalar(obj[path[1].lo]), raised |-> "None"]
    ELSE [value |-> ArrayValue([k \in {j \in 0 .. (path[1].hi - path[1].lo - 1) :
                                        (path[1].lo + j) \in DOMAIN obj} |-> obj[path[1].lo + k]]),
          raised |-> "None"]

\* Whether a value can be written at a path that applies: an array goes into
\* a slice of its own length, or is broadcast from length one.
value_fits(obj, path, value) ==
    \/ path = << >>
    \/ ~value.isArr
    \/ Cardinality(DOMAIN value.a) \in {1, Cardinality({i \in DOMAIN obj : Covers(path, i)})}

\* deep_assign_data_in_path(data, path, value, raise_on_failure): a failure
\* surfaces only when raise_on_failure is set, else the data is left as it is.
deep_assign_or_raise(obj, path, value, raise_on_failure) ==
    IF path_applies(obj, path) /\ value_fits(obj, path, value)
    THEN [data |-> IF path = << >> THEN value.a
                   ELSE [i \in DOMAIN obj |->
                           IF ~Covers(path, i) THEN obj[i]
                           ELSE IF ~value.isArr THEN value.s
                           ELSE IF Cardinality(DOMAIN value.a) = 1 THEN value.a[0]
                           ELSE value.a[i - path[1].lo]],
          raised |-> "None"]
    ELSE IF raise_on_failure THEN [data |-> obj, raised |-> "FailedToDeepAssignException"]
    ELSE [data |-> obj, raised |-> "None"]

\* The loop of override() from entry k on: the entry at which it raised (0
\* when it ran to the end), the exception and the data.
RECURSIVE replay_or_raise(_, _, _, _, _, _)
replay_or_raise(entries, k, original_data, data, tmpl, act) ==
    IF k > Len(entries) THEN [data |-> data, at |-> 0, raised |-> "None"]
    ELSE LET assignment == entries[k].asg
             got == IF assignment.kind = "AssignmentToDefault"
                    THEN deep_get_or_raise(original_data, assignment.path)
                    ELSE IF tmpl.bound
                    THEN [value |-> convert(tmpl, assignment.value), raised |-> "None"]
                    ELSE [value |-> assignment.value, raised |-> "None"]
             assigned == deep_assign_or_raise(data, assignment.path, got.value, assignment = act)
         IN  IF got.raised # "None" THEN [data |-> data, at |-> k, raised |-> got.raised]
             ELSE IF assigned.raised # "None"
             THEN [data |-> data, at |-> k, raised |-> assigned.raised]
             ELSE replay_or_raise(entries, k + 1, original_data, assigned.data, tmpl, act)

\* Overrider.override on data the recorded paths may no longer fit.
override_or_raise(entries, d, tmpl, act) == replay_or_raise(entries, 1, d, d, tmpl, act)

\* Overrider.override(data, assignment_template) after the function's result
\* took either length; the marker is cleared only when the loop ran to the end.
OverrideChangedData ==
    \E t \in Templates, m \in DataLens :
        LET r == override_or_raise(pta, ArangeOf(m), t, active)
        IN  /\ active' = IF r.raised = "None" THEN NoAssignment ELSE active
            /\ op' = Call("override", active, [result |-> r, given |-> ArangeOf(m)])
            /\ UNCHANGED pta
            /\ UNCHANGED <<gvars, tvars, cvars, pvars, inversion, quib_function_call>>

XNext == AddAssignment \/ ReturnAssignmentsToDefault \/ OverrideChangedData

SpecShapeChange == OvInit /\ [][XNext]_vars

\* --------------------------------- the diamond: QuibHandler.override in full
\* The number of overrides made on the diamond.
MaxOverrides == 2

\* The quibs reached from a quib through children (Quib.get_descendants).
DagDescendants(n) ==
    CASE n = "root" -> {"left", "right", "join"}
      [] n \in {"left", "right"} -> {"join"}
      [] OTHER -> {}

\* A mutant of the step below: the type is taken to have changed whatever the
\* path of the assignment, and the quib's own cache is dropped.
on_type_change_at_any_path(st, n, path) == IF n = "root" THEN st ELSE reset_cache(st, n)

\* override(): if len(assignment.path) == 0: quib_function_call.on_type_change()
on_type_change_of_whole(st, n, path) ==
    IF path = << >> /\ n # "root" THEN reset_cache(st, n) ELSE st

\* The function quibs start with allow_overriding False, the input quib True.
HInit ==
    /\ func \in DagGraphs
    /\ ov = [n \in DagQuibs |-> << >>]
    /\ cache = [n \in DagFuncQuibs |-> CacheNone]
    /\ caching = [n \in DagFuncQuibs |-> TRUE]
    /\ allow = [n \in DagQuibs |-> n = "root"]
    /\ gop = NoException
    /\ CallsIdle
    /\ ChoiceIdle
    /\ ProjectIdle
    /\ quib_function_call = DagCall("init", "root", GNone, << >>, << >>)
    /\ pta = << >>
    /\ active = NoAssignment
    /\ op = Call("init", NoAssignment, NoRet)

\* QuibHandler.override(assignment) of a quib of the diamond that is not
\* overridden yet, outside of a drag: the flag, the overrider, the type
\* change, the invalidation of the children and the push on the undo stack.
DagHandlerOverride ==
    \E n \in {q \in DagQuibs : ov[q] = << >>}, assignment \in DagAssignments,
       order \in DagOrders :
        /\ Len(undo_stack) < MaxOverrides
        /\ LET stored == without_indexed_cls(assignment)
               ov1 == [ov EXCEPT ![n] = add_to_paths_to_assignments(@, stored)]
               s1 == on_type_change_of_whole([cache |-> cache, caching |-> caching], n,
                                             assignment.path)
               s2 == dag_invalidate_children_at_path(func, ov1, s1, n,
                                                     FirstComponent(assignment.path), order)
           IN  /\ allow' = [allow EXCEPT ![n] = TRUE]
               /\ ov' = ov1
               /\ cache' = s2.cache
               /\ caching' = s2.caching
               /\ undo_stack' = Append(undo_stack, [index |-> Len(ov1[n]) - 1,
                                                    assignment |-> stored, quib |-> n])
               /\ quib_function_call' =
                      DagCall("override", n, FirstComponent(assignment.path), << >>, << >>)
               /\ UNCHANGED <<func, gop, ovars, tvars, cvars, inversion, xy_overrider, dragging,
                              drag_actions, redo_stack, redraws>>

HNext == DagHandlerOverride \/ DagGetValueValidAtPath

SpecFrame == HInit /\ [][HNext]_vars

\* ------------------------------------- QuibHandler.override that can fail
\* The quib x under study has the function result arange(length) and one
\* child, a function quib without translators that is overridden or not.
QuibUnderOverride(length, child_is_overridden) ==
    [definition |-> [name |-> "arange"], length |-> length,
     child_is_overridden |-> child_is_overridden]

\* The assignments made to x: 5 at an element, or a whole new array.
HandlerAssignments ==
    {Assignment(p, Scalar(5)) : p \in IndexPaths("ndarray")}
    \cup {Assignment(WholePath, ArrayValue(w)) : w \in WholeVals}

\* invalidate_and_redraw_at_path(path) of x, for what it does to x itself:
\* the child has no translators and is invalidated at [], and for a path that
\* is not empty the check of its overrides evaluates it at None, which
\* requests x at None and replays the overrides of x.
invalidation_evaluates(quib, path) == path # << >> /\ quib.child_is_overridden

\* QuibHandler.override on the state of x [entries, active, allow, undo];
\* raised names the exception it left with.
handler_override_or_raise(state, quib, assignment, allow_overriding_from_now_on) ==
    LET allowed == state.allow \/ allow_overriding_from_now_on
        stored == without_indexed_cls(assignment)
        entries == add_to_paths_to_assignments(state.entries, stored)
        evaluates == invalidation_evaluates(quib, assignment.path)
        r == override_or_raise(entries, ArangeOf(quib.length), NoTemplate, stored)
    IN  IF ~allowed
        THEN [state EXCEPT !.raised = "OverridingNotAllowedException"]
        ELSE IF evaluates /\ r.raised # "None"
        THEN [active |-> stored, allow |-> allowed, entries |-> entries, raised |-> r.raised,
              undo |-> state.undo]
        ELSE [active |-> IF evaluates THEN NoAssignment ELSE stored,
              allow |-> allowed, entries |-> entries, raised |-> "None",
              undo |-> Append(state.undo, [index |-> Len(entries) - 1, assignment |-> stored,
                                           quib |-> "b"])]

AInit ==
    /\ pta = << >>
    /\ active = NoAssignment
    /\ op = Call("init", NoAssignment, NoRet)
    /\ GraphIdle
    /\ quib_function_call \in {QuibUnderOverride(m, c) : m \in DataLens, c \in BOOLEAN}

\* QuibHandler.override(assignment, allow_overriding_from_now_on) on x,
\* outside of a drag
HandlerOverrideOrRaise ==
    \E assignment \in HandlerAssignments, allow_overriding_from_now_on \in BOOLEAN :
        LET state == handler_override_or_raise(
                         [active |-> active, allow |-> allow["b"], entries |-> pta,
                          raised |-> "None", undo |-> undo_stack],
                         quib_function_call, assignment, allow_overriding_from_now_on)
        IN  /\ Len(undo_stack) < MaxUndo
            /\ pta' = state.entries
            /\ active' = state.active
            /\ allow' = [allow EXCEPT !["b"] = state.allow]
            /\ undo_stack' = state.undo
            /\ op' = Call("QuibHandler.override", without_indexed_cls(assignment),
                          [raised |-> state.raised])
            /\ UNCHANGED <<func, ov, cache, caching, gop, tvars, cvars, inversion,
                           xy_overrider, dragging, drag_actions, redo_stack, redraws,
                           quib_function_call>>

\* Quib.get_value_valid_at_path([]) on x: the overrides are replayed on the
\* function result.
RequestValueOrRaise ==
    LET r == override_or_raise(pta, ArangeOf(quib_function_call.length), NoTemplate, active)
    IN  /\ pta # << >>
        /\ active' = IF r.raised = "None" THEN NoAssignment ELSE active
        /\ op' = Call("get_value_valid_at_path", active, [raised |-> r.raised])
        /\ UNCHANGED <<pta, gvars, tvars, cvars, pvars, inversion, quib_function_call>>

ANextAtomic == HandlerOverrideOrRaise \/ RequestValueOrRaise

SpecAtomic == AInit /\ [][ANextAtomic]_vars

\* ------------------------------------------ the registration of operators
\* The operators registered with binary_operator_override (each also in its
\* reverse form) and the numpy functions registered with binary_elementwise,
\* with whether an inverse function is given for them.
OperatorNames == {"__add__", "__mul__", "__sub__"}
NumpyBinaryFuncs == {"add", "hypot"}
is_inverse(func_name) == func_name = "add"
RegisteredNames ==
    {<<"operator", n, r>> : n \in OperatorNames, r \in BOOLEAN}
    \cup {<<"numpy", n, FALSE>> : n \in NumpyBinaryFuncs}

\* A list handed to a definition: the module's BINARY_ELEMENTWISE_INVERTERS
\* itself (shared), or a list of the definition's own.
SharedList == [items |-> << >>, shared |-> TRUE]
OwnList(items) == [items |-> items, shared |-> FALSE]
\* What the list holds now.
items_of(list, BINARY_ELEMENTWISE_INVERTERS) ==
    IF list.shared THEN BINARY_ELEMENTWISE_INVERTERS ELSE list.items

\* create_func_definition keeps the list it is handed, or a copy of it.
kept(list, BINARY_ELEMENTWISE_INVERTERS, copies) ==
    IF copies THEN OwnList(items_of(list, BINARY_ELEMENTWISE_INVERTERS)) ELSE list

\* The registration tables: the module's list, the definitions made so far,
\* and whether a definition copies its lists.
Registry(BINARY_ELEMENTWISE_INVERTERS, registered, copies) ==
    [definition |-> [name |-> "none"], BINARY_ELEMENTWISE_INVERTERS |-> BINARY_ELEMENTWISE_INVERTERS,
     copies |-> copies, registered |-> registered]
NotRegistered == [func_name |-> "None"]

\* '__r' + func_name[2:]
reverse_name(func_name) ==
    CASE func_name = "__add__" -> "__radd__"
      [] func_name = "__mul__" -> "__rmul__"
      [] func_name = "__sub__" -> "__rsub__"

\* binary_operator_override(func_name, inverse_funcs, is_reverse)
binary_operator_override(registry, func_name, is_reverse) ==
    LET special == func_name \in {"__add__", "__mul__"}
        backwards_path_translators ==
            IF special
            THEN <<"ListOperatorBackwardsPathTranslator", "BinaryElementwiseBackwardsPathTranslator">>
            ELSE <<"BinaryElementwiseBackwardsPathTranslator">>
        forwards_path_translators ==
            IF special
            THEN <<"ListOperatorForwardsPathTranslator", "BinaryElementwiseForwardsPathTranslator">>
            ELSE <<"BinaryElementwiseForwardsPathTranslator">>
        \* inverters = BINARY_ELEMENTWISE_INVERTERS; inverters.insert(0, ...)
        inserted == IF special
                    THEN <<"ListOperatorInverter">> \o registry.BINARY_ELEMENTWISE_INVERTERS
                    ELSE registry.BINARY_ELEMENTWISE_INVERTERS
        name == IF is_reverse THEN reverse_name(func_name) ELSE func_name
    IN  Registry(inserted,
                 [registry.registered EXCEPT ![<<"operator", func_name, is_reverse>>] =
                     [func_name |-> name,
                      backwards_path_translators |-> backwards_path_translators,
                      forwards_path_translators |-> forwards_path_translators,
                      inverters |-> kept(SharedList, inserted, registry.copies)]],
                 registry.copies)

\* binary_elementwise(func_name, inverse_funcs)
binary_elementwise(registry, func_name) ==
    Registry(registry.BINARY_ELEMENTWISE_INVERTERS,
             [registry.registered EXCEPT ![<<"numpy", func_name, FALSE>>] =
                 [func_name |-> func_name,
                  backwards_path_translators |-> <<"BinaryElementwiseBackwardsPathTranslator">>,
                  forwards_path_translators |-> <<"BinaryElementwiseForwardsPathTranslator">>,
                  inverters |-> IF is_inverse(func_name)
                                THEN kept(SharedList, registry.BINARY_ELEMENTWISE_INVERTERS,
                                          registry.copies)
                                ELSE OwnList(<< >>)]],
             registry.copies)

\* The modules as imported: the list as written in numpy/helpers.py, nothing
\* registered yet.
BInit ==
    /\ pta = << >>
    /\ active = NoAssignment
    /\ op = Call("init", NoAssignment, NoRet)
    /\ GraphIdle
    /\ quib_function_call \in
          {Registry(<<"BinaryElementwiseInverter">>, [n \in RegisteredNames |-> NotRegistered], c) :
              c \in BOOLEAN}

\* One registration of an operator, in any order, each once.
BinaryOperatorOverride ==
    \E func_name \in OperatorNames, is_reverse \in BOOLEAN :
        /\ quib_function_call.registered[<<"operator", func_name, is_reverse>>] = NotRegistered
        /\ quib_function_call' = binary_operator_override(quib_function_call, func_name, is_reverse)
        /\ UNCHANGED <<ovars, gvars, tvars, cvars, pvars, inversion>>

\* One registration of a numpy function.
BinaryElementwise ==
    \E func_name \in NumpyBinaryFuncs :
        /\ quib_function_call.registered[<<"numpy", func_name, FALSE>>] = NotRegistered
        /\ quib_function_call' = binary_elementwise(quib_function_call, func_name)
        /\ UNCHANGED <<ovars, gvars, tvars, cvars, pvars, inversion>>

BNext == BinaryOperatorOverride \/ BinaryElementwise

SpecRegistration == BInit /\ [][BNext]_vars

\* ------------------------------------------------ the graph: the claims
\* The value of a quib recomputed from scratch: the function of the parent's
\* recomputed (overridden) value; Final adds the quib's own overrides.
RECURSIVE Fresh(_, _, _)
Final(f, ovs, n) == overridden(ovs[n], Fresh(f, ovs, n))
Fresh(f, ovs, n) == IF n = "a" THEN InputValue ELSE call_func(f[n], Final(f, ovs, parent(n)))
Requests(f, n) == {GWhole} \cup {GMask(S) : S \in (SUBSET PosOf(f, n)) \ {{}}}

InvalidPositions(f, c) == PosOf(f, "b") \ (IF c["b"].exists THEN c["b"].valid ELSE {})

C8_NonOverridableUnchanged ==
    [][\A n \in Nodes : ~allow[n] => (ov'[n] = ov[n] /\ allow'[n] = allow[n])]_vars

\* C8 amended: QuibHandler.override called with
\* allow_overriding_from_now_on=False on a quib whose allow_overriding is
\* False raises OverridingNotAllowedException naming the quib and the
\* assignment and leaves every overrider, cache and flag unchanged; and no
\* call records an assignment on a quib that is non-overridable afterwards.
C8_GuardedCallRaises ==
    [][/\ (gop'.guarded /\ ~allow[gop'.quib]) =>
              /\ gop'.raised
              /\ gop'.assignment \in GuardedAssignments
              /\ UNCHANGED <<ov, cache, caching, allow>>
       /\ gop'.raised => (gop'.guarded /\ ~allow[gop'.quib])
       /\ \A n \in Nodes : ov'[n] # ov[n] => allow'[n]
      ]_vars

\* C8 witness: the guarded call on the function quib b raised, and b has no
\* override and is still non-overridable.
C8_Witness ==
    /\ gop = OverridingNotAllowedException("b", Assignment(<<IndexComponent(0, "ndarray")>>, Scalar(7)))
    /\ ov["b"] = << >>
    /\ ~allow["b"]
    /\ cache["b"].exists
\* ------------------------------------------- the override choice: the claims
\* Whether an override point can be reached from the quib: it allows
\* overriding, or its function is inverted and every parent it is inverted to
\* reaches one.
RECURSIVE HasOverridePoint(_, _, _)
HasOverridePoint(sh, allowed, q) ==
    \/ allowed[q]
    \/ /\ HasInverter(sh, q)
       /\ \A i \in DOMAIN Parents(sh, q) : HasOverridePoint(sh, allowed, Parents(sh, q)[i])
\* The override points reachable from the quib.
RECURSIVE OverridePoints(_, _, _)
OverridePoints(sh, allowed, q) ==
    (IF allowed[q] THEN {q} ELSE {})
    \cup (IF /\ HasInverter(sh, q)
             /\ \A i \in DOMAIN Parents(sh, q) : HasOverridePoint(sh, allowed, Parents(sh, q)[i])
          THEN UNION {OverridePoints(sh, allowed, Parents(sh, q)[i]) : i \in DOMAIN Parents(sh, q)}
          ELSE {})
RECURSIVE Ancestors(_, _)
Ancestors(sh, q) ==
    UNION {{Parents(sh, q)[i]} \cup Ancestors(sh, Parents(sh, q)[i]) : i \in DOMAIN Parents(sh, q)}
IsChoiceCall(r) == r.name \in {"get_overrides_for_assignment", "apply_assignment"}

\* C9: a call of get_overrides_for_assignment(target, assignment), alone or
\* within apply_assignment, raises AssignmentNotPossibleException exactly
\* when no override point can be reached from the target (the target does
\* not allow overriding and its function has no inverter, or no quib up its
\* inversions allows overriding, or one branch of a diverged inversion
\* reaches none); the exception carries that target and that assignment, no
\* dialog is opened, and no quib's overrides or allow_overriding and no
\* cached choice changes.
C9_NotPossibleRaises ==
    [][IsChoiceCall(cresult') =>
          /\ ~HasOverridePoint(fixture, callow, cresult'.quib) =>
                /\ cresult'.exception
                      = Exception("AssignmentNotPossibleException", cresult'.quib, cresult'.assignment)
                /\ cresult'.dialogs = << >>
                /\ cresult'.overrides = << >>
                /\ UNCHANGED <<fixture, callow, cov, choice_cache>>
          /\ cresult'.exception.type = "AssignmentNotPossibleException" =>
                ~HasOverridePoint(fixture, callow, cresult'.quib)
      ]_vars
C9_Witness ==
    /\ fixture = "diverged_quib_graph"
    /\ callow["grandparent1"] /\ ~callow["grandparent2"]
    /\ ~callow["child"] /\ ~callow["parent1"] /\ ~callow["parent2"]
    /\ cov["grandparent1"] = 5
    /\ choice_cache # {}
    /\ cresult.name = "apply_assignment"
    /\ cresult.exception
          = Exception("AssignmentNotPossibleException", "child", Assignment(WholePath, Scalar(5)))

\* C10: when exactly one override point can be reached from the target, the
\* call returns the override of that point and opens no dialog; every dialog
\* a call opens offers at least two choices (the listed options and, when
\* the inversion diverges, diverging), at least two override points being
\* reachable from the target; the options of a dialog are listed from the
\* nearest quib upwards, the target (listed first in the first dialog of a
\* call without cached choices, when the target allows overriding) and then
\* its ancestors, each an ancestor of the one before.
C10_SingleOptionChosenWithoutDialog ==
    [][IsChoiceCall(cresult') =>
          /\ Cardinality(OverridePoints(fixture, callow, cresult'.quib)) = 1 =>
                /\ cresult'.exception.type = "None"
                /\ cresult'.dialogs = << >>
                /\ Len(cresult'.overrides) = 1
                /\ cresult'.overrides[1].quib \in OverridePoints(fixture, callow, cresult'.quib)
          /\ cresult'.dialogs # << >> =>
                /\ Cardinality(OverridePoints(fixture, callow, cresult'.quib)) >= 2
                /\ (callow[cresult'.quib] /\ choice_cache = {}) =>
                      cresult'.dialogs[1].quibs[1] = cresult'.quib
          /\ \A d \in DOMAIN cresult'.dialogs :
                /\ Len(cresult'.dialogs[d].quibs)
                      + (IF cresult'.dialogs[d].can_diverge THEN 1 ELSE 0) >= 2
                /\ \A i \in DOMAIN cresult'.dialogs[d].quibs :
                      cresult'.dialogs[d].quibs[i]
                         \in {cresult'.quib} \cup Ancestors(fixture, cresult'.quib)
                /\ \A i, j \in DOMAIN cresult'.dialogs[d].quibs :
                      i < j => cresult'.dialogs[d].quibs[j]
                                  \in Ancestors(fixture, cresult'.dialogs[d].quibs[i])
      ]_vars
C10_Witness ==
    /\ fixture = "parent_and_child"
    /\ ~callow["child"] /\ callow["parent1"]
    /\ cresult.name = "apply_assignment"
    /\ cresult.quib = "child"
    /\ cresult.exception = NotRaised
    /\ cresult.dialogs = << >>
    /\ cresult.overrides = <<AssignmentToQuib("parent1", Assignment(WholePath, Scalar(4)))>>
    /\ cov["parent1"] = 4 /\ cov["child"] = 0
    /\ [quib |-> "child",
        context |-> [quibs |-> <<"child", "parent1">>, can_diverge |-> FALSE],
        choice |-> OverrideChoice("OVERRIDE", 1)] \in choice_cache
\* The options the dialog would list for an assignment to the quib: the
\* quibs allowing overriding, from the quib up its single inversions.
RECURSIVE OptionsFrom(_, _, _)
OptionsFrom(sh, allowed, q) ==
    (IF allowed[q] THEN <<q>> ELSE << >>)
    \o (IF HasInverter(sh, q) /\ Len(Parents(sh, q)) = 1
        THEN OptionsFrom(sh, allowed, Parents(sh, q)[1]) ELSE << >>)
\* Whether the inversions from the quib reach a diverged inversion each of
\* whose branches reaches an override point.
RECURSIVE CanDivergeFrom(_, _, _)
CanDivergeFrom(sh, allowed, q) ==
    /\ HasInverter(sh, q)
    /\ IF Len(Parents(sh, q)) = 1 THEN CanDivergeFrom(sh, allowed, Parents(sh, q)[1])
       ELSE \A i \in DOMAIN Parents(sh, q) : HasOverridePoint(sh, allowed, Parents(sh, q)[i])
ContextOf(sh, allowed, q) ==
    [quibs |-> OptionsFrom(sh, allowed, q), can_diverge |-> CanDivergeFrom(sh, allowed, q)]
\* The choices stored on the quib for the context.
StoredFor(choices, q, context) ==
    {e.choice : e \in {x \in choices : x.quib = q /\ x.context = context}}
\* The assignment that overrides quib x to give the target q the assignment.
ExpectedOverride(sh, q, x, assignment) ==
    IF q = "child" /\ x # "child" /\ sh # "diverged_quib_graph"
    THEN Assignment(WholePath, Scalar(assignment.value.s - 1))
    ELSE assignment

\* C11: a choice stored on a quib for a context (its options and its
\* can-diverge flag) stays stored, and an assignment to the quib with that
\* context opens no dialog for it: a stored override choice yields, with no
\* dialog at all, the override of the chosen quib with the value the new
\* assignment gives it; a stored diverge choice leaves the quib's own
\* options alone and resolves every branch, again opening no dialog for a
\* branch whose choice is stored, each override carrying the new value.
C11_StoredChoiceReused ==
    [][IsChoiceCall(cresult') =>
          LET q == cresult'.quib
              context == ContextOf(fixture, callow, q)
              stored == StoredFor(choice_cache, q, context)
          IN  /\ choice_cache \subseteq choice_cache'
              /\ \A d \in DOMAIN cresult'.dialogs :
                    StoredFor(choice_cache, cresult'.dialogs[d].quib,
                              [quibs |-> cresult'.dialogs[d].quibs,
                               can_diverge |-> cresult'.dialogs[d].can_diverge]) = {}
              /\ \A k \in DOMAIN cresult'.overrides :
                    cresult'.overrides[k].assignment
                       = ExpectedOverride(fixture, q, cresult'.overrides[k].quib, cresult'.assignment)
              /\ \A choice \in stored :
                    IF choice.type = "OVERRIDE"
                    THEN /\ cresult'.exception = NotRaised
                         /\ cresult'.dialogs = << >>
                         /\ Len(cresult'.overrides) = 1
                         /\ cresult'.overrides[1].quib = context.quibs[choice.chosen_index]
                    ELSE /\ \A k \in DOMAIN cresult'.overrides :
                               \A i \in DOMAIN context.quibs :
                                  cresult'.overrides[k].quib # context.quibs[i]
                         /\ cresult'.exception = NotRaised =>
                               Len(cresult'.overrides) = 2
      ]_vars
C11_Witness ==
    /\ fixture = "diverged_quib_graph"
    /\ cresult.name = "get_overrides_for_assignment"
    /\ cresult.quib = "child"
    /\ cresult.assignment = Assignment(WholePath, Scalar(6))
    /\ cresult.dialogs = << >>
    /\ cresult.overrides = <<AssignmentToQuib("grandparent1", Assignment(WholePath, Scalar(6))),
                             AssignmentToQuib("grandparent2", Assignment(WholePath, Scalar(6)))>>
    /\ callow["child"] /\ callow["parent1"] /\ callow["grandparent1"]
    /\ choice_cache =
          {[quib |-> "child", context |-> [quibs |-> <<"child">>, can_diverge |-> TRUE],
            choice |-> OverrideChoice("DIVERGE", 0)],
           [quib |-> "parent1",
            context |-> [quibs |-> <<"parent1", "grandparent1">>, can_diverge |-> FALSE],
            choice |-> OverrideChoice("OVERRIDE", 2)]}

\* C12: a choice stored on a quib is used only for the context it was
\* stored for. When choices are stored on the target but none for its
\* current context, the call resolves from the current options: a single
\* option that cannot diverge is overridden with no dialog, and otherwise
\* the dialog is opened on the current options and the override made is
\* one of them.
C12_StoredChoiceOnlyForItsContext ==
    [][IsChoiceCall(cresult') =>
          LET q == cresult'.quib
              context == ContextOf(fixture, callow, q)
          IN  (/\ \E e \in choice_cache : e.quib = q
               /\ StoredFor(choice_cache, q, context) = {}
               /\ HasOverridePoint(fixture, callow, q)) =>
                 IF Len(context.quibs) = 1 /\ ~context.can_diverge
                 THEN /\ cresult'.dialogs = << >>
                      /\ cresult'.exception = NotRaised
                      /\ cresult'.overrides
                            = <<AssignmentToQuib(context.quibs[1],
                                   ExpectedOverride(fixture, q, context.quibs[1], cresult'.assignment))>>
                 ELSE IF Len(context.quibs) = 0 THEN TRUE
                 ELSE /\ cresult'.dialogs # << >>
                      /\ cresult'.dialogs[1]
                            = [quib |-> q, quibs |-> context.quibs,
                               can_diverge |-> context.can_diverge]
                      /\ (Len(cresult'.dialogs) = 1 /\ Len(cresult'.overrides) = 1) =>
                            \E i \in DOMAIN context.quibs :
                               cresult'.overrides[1].quib = context.quibs[i]
      ]_vars
C12_Witness ==
    /\ fixture = "parent_and_child"
    /\ callow["child"] /\ ~callow["parent1"]
    /\ choice_cache =
          {[quib |-> "child",
            context |-> [quibs |-> <<"child", "parent1">>, can_diverge |-> FALSE],
            choice |-> OverrideChoice("OVERRIDE", 2)]}
    /\ cresult.name = "get_overrides_for_assignment"
    /\ cresult.quib = "child"
    /\ cresult.dialogs = << >>
    /\ cresult.overrides = <<AssignmentToQuib("child", Assignment(WholePath, Scalar(6)))>>

IsUndoStep ==
    /\ undo_stack # << >>
    /\ undo_stack' = SubSeq(undo_stack, 1, Len(undo_stack) - 1)
    /\ redo_stack' = Append(redo_stack, undo_stack[Len(undo_stack)])
IsRedoStep ==
    /\ redo_stack # << >>
    /\ redo_stack' = SubSeq(redo_stack, 1, Len(redo_stack) - 1)
    /\ undo_stack' = Append(undo_stack, redo_stack[Len(redo_stack)])

C15_RedoRestoresAndUndoPutsBack ==
    [][/\ IsRedoStep => project_value(xy_overrider') = redo_stack[Len(redo_stack)].after
       /\ IsUndoStep =>
             \A k \in DOMAIN undo_stack[Len(undo_stack)].actions :
                LET action == undo_stack[Len(undo_stack)].actions[k]
                IN  assignment_at(xy_overrider', action.new_assignment.path)
                        = action.previous_assignment]_vars

Inverted_call == inversion # NoInversion
\* The argument and the element of it a position of the result comes from,
\* by the definition of each function.
Origin(func_call, p) ==
    LET n == Size(func_call.data[1].value)
        count == func_call.parameter.value[1]
    IN  CASE func_call.func = "rot90" -> <<1, n - 1 - p>>
          [] func_call.func \in {"reshape", "array"} -> <<1, p>>
          [] func_call.func = "concatenate" -> IF p < n THEN <<1, p>> ELSE <<2, p - n>>
          [] func_call.func = "repeat" -> <<1, p \div count>>
          [] func_call.func = "tile" -> <<1, p % n>>
          [] func_call.func = "full" -> <<1, 0>>
FromSource(func_call, p) == func_call.data[Origin(func_call, p)[1]].source # ""
\* The chosen positions that are copies of the same source element as p.
Copies(func_call, chosen, p) == {q \in chosen : Origin(func_call, q) = Origin(func_call, p)}
\* Every value the inversals carry is one of the assigned values.
WrittenAsIs(call) ==
    \A v \in call.inversals : \A i \in DOMAIN v.assignment.value :
        \E p \in DOMAIN call.value : v.assignment.value[i] = call.value[p]
\* Every source element no chosen position comes from keeps its value.
OthersKept(call) ==
    \A k \in DOMAIN call.func_call.data : \A i \in DOMAIN call.func_call.data[k].value :
        (~\E p \in DOMAIN call.value : Origin(call.func_call, p) = <<k, i>>)
        => with_inversals(call.func_call, call.inversals).data[k].value[i]
               = call.func_call.data[k].value[i]

C18_ConcatenateInvertsItsOwnElements ==
    (Inverted_call /\ inversion.func_call.func = "concatenate") =>
        \A k \in {1, 2} :
            LET source == inversion.func_call.data[k].source
                own == {p \in DOMAIN inversion.value : Origin(inversion.func_call, p)[1] = k}
                for_source == {v \in inversion.inversals : v.source = source}
            IN  IF source = "" \/ own = {}
                THEN for_source = {}
                ELSE /\ Cardinality(for_source) = 1
                     /\ \A v \in for_source :
                           /\ ~v.assignment.path.whole
                           /\ v.assignment.path.mask
                                 = {Origin(inversion.func_call, p)[2] : p \in own}
                           /\ \A p \in own :
                                 v.assignment.value[Origin(inversion.func_call, p)[2]]
                                     = inversion.value[p]
\* 99 at c[2] of concatenate([1, 2], [3, 4]): only b[0] is assigned.
C18_Witness ==
    /\ Inverted_call
    /\ inversion.func_call =
          FuncCall("concatenate", <<Arg("a", "ndarray", Counting_from(1, 2)),
                                    Arg("b", "ndarray", Counting_from(3, 2))>>, NoParameter)
    /\ inversion.value = (2 :> 99)
    /\ inversion.inversals =
          {[assignment |-> [path |-> PathInSource(FALSE, {0}), value |-> (0 :> 99)],
            source |-> "b"]}
    /\ run_func_call(with_inversals(inversion.func_call, inversion.inversals))
          = (0 :> 1) @@ (1 :> 2) @@ (2 :> 99) @@ (3 :> 4)

\* C19: no inversal names the parameter source or a plain argument: every
\* inversal is for a source among the data arguments, and there is none at
\* all when no assigned position comes from a source.
C19_OnlyDataSourcesInverted ==
    Inverted_call =>
        /\ \A v \in inversion.inversals :
              /\ v.source \notin {"", "parameter"}
              /\ \E k \in DOMAIN inversion.func_call.data :
                    inversion.func_call.data[k].source = v.source
        /\ (\A p \in DOMAIN inversion.value : ~FromSource(inversion.func_call, p))
              => inversion.inversals = {}
\* repeat([1, 2, 3, 4], Source(3)) with position 0 assigned: no inversal.
C19_Witness ==
    /\ Inverted_call
    /\ inversion.func_call =
          FuncCall("repeat", <<Arg("", "ndarray", Counting_from(1, 4))>>,
                   Arg("parameter", "scalar", <<3>>))
    /\ inversion.value = (0 :> 98)
    /\ inversion.inversals = {}

E_index == inversion.value[1]
E_value == inversion.value[2]
E_previous == run_elementwise(inversion.func_call)
E_rerun == run_elementwise(with_elementwise_inversals(inversion.func_call, inversion.inversals))
E_other == inversion.func_call.data[IF inversion.func_call.source = 0 THEN 2 ELSE 1][E_index]
E_operand == inversion.func_call.data[inversion.func_call.source + 1][E_index]
Inverted_elementwise == inversion # NoInversion

\* Exactly one inversal, for the quib operand at the assigned index, whose
\* value is the registered inverse applied to (v, previous other operand);
\* for subtract and divide at the second operand that is f(other, v).
E_RegisteredInverseApplied ==
    LET call == inversion.func_call
    IN  /\ Cardinality(inversion.inversals) = 1
        /\ \A s \in inversion.inversals :
              /\ s.source = call.source
              /\ s.assignment.path = E_index
              /\ s.assignment.value = inverse_func(call.func, call.source, E_value, E_other)
              /\ (call.func \in {"subtract", "divide"} /\ call.source = 1)
                    => s.assignment.value = np_func(call.func, E_other, E_value)
\* Re-evaluating leaves every other index of y as it was.
E_OthersUnchanged == \A j \in Pos \ {E_index} : E_rerun[j] = E_previous[j]

\* C21 as stated: for every operand, index and value, the inversal is the
\* registered inverse of (v, previous other operand), re-evaluating f gives
\* v at i, and every other index of y is unchanged.
C21_InverseReproducesValue ==
    Inverted_elementwise =>
        /\ E_RegisteredInverseApplied
        /\ E_rerun[E_index] = E_value
        /\ E_OthersUnchanged

\* Where the inverse is singular: multiply and the first operand of divide
\* with the other operand 0, the second operand of divide with the first 0.
E_Singular ==
    LET call == inversion.func_call
    IN  \/ call.func = "multiply" /\ E_other = Num(0)
        \/ call.func = "divide" /\ E_other = Num(0)

\* C21 (amended): the inversal is the registered inverse applied to
\* (v, previous other operand), every other index of y is unchanged, and
\* re-evaluating f gives v at i unless the other operand is 0 at i for
\* multiply or divide, where no value of the operand gives v.
C21_InverseReproducesValueWhereDefined ==
    Inverted_elementwise =>
        /\ E_RegisteredInverseApplied
        /\ E_OthersUnchanged
        /\ ~E_Singular => E_rerun[E_index] = E_value
        /\ E_Singular => ~IsFinite(E_rerun[E_index])

\* doubled = multiply(input, 2) with input [1,2,3]: assigning 6 at [1] has
\* written 3 at input[1] and doubled is [2,6,6].
C21_Witness ==
    /\ Inverted_elementwise
    /\ inversion.func_call.func = "multiply"
    /\ inversion.func_call.source = 0
    /\ inversion.func_call.data = <<[i \in Pos |-> Num(i + 1)], [i \in Pos |-> Num(2)]>>
    /\ inversion.value = <<1, Num(6)>>
    /\ inversion.inversals = {[assignment |-> [path |-> 1, value |-> Num(3)], source |-> 0]}
    /\ E_rerun = [i \in Pos |-> IF i = 1 THEN Num(6) ELSE Num(2 * (i + 1))]

\* divide(2, input) with input 1 at the index: assigning 5 writes 2/5, the
\* inverse f(other, result) of the second operand.
C21_WitnessSecondOperand ==
    /\ Inverted_elementwise
    /\ inversion.func_call.func = "divide"
    /\ inversion.func_call.source = 1
    /\ E_other = Num(2) /\ E_operand = Num(1) /\ E_value = Num(5)
    /\ \A s \in inversion.inversals : s.assignment.value = Frac(2, 5)
    /\ E_rerun[E_index] = Num(5)

\* ------------------------------------------------- failed inversion: the claim
\* The inversion through the quib's function fails: the quib is a function
\* quib and no inverter is registered for its function, or each one
\* registered raises FailedToInvertException.
InversionFails(sh, q) ==
    /\ Parents(sh, q) # << >>
    /\ sh \in {"no_inverter", "failing_inverter"}

\* C22: when the inversion through the target's function fails (no inverter
\* registered, or the registered inverter raises FailedToInvertException),
\* get_inversions_for_assignment returns no upstream candidate and the call
\* raises nothing but AssignmentNotPossibleException: a target that allows
\* overriding gets the assignment as its own override, without a dialog and
\* with no other quib touched; a target that does not makes the call raise
\* AssignmentNotPossibleException for the target and the assignment, and
\* nothing changes.
C22_FailedInversionOverridesHere ==
    [][(IsChoiceCall(cresult') /\ InversionFails(fixture, cresult'.quib)) =>
          /\ get_inversions_for_assignment(fixture, cresult'.quib, cresult'.assignment) = << >>
          /\ callow[cresult'.quib] =>
                /\ cresult'.exception = NotRaised
                /\ cresult'.dialogs = << >>
                /\ cresult'.overrides = <<AssignmentToQuib(cresult'.quib, cresult'.assignment)>>
                /\ cresult'.override_removals = << >>
                /\ cresult'.name = "apply_assignment" =>
                      cov' = [cov EXCEPT ![cresult'.quib] = cresult'.assignment.value.s]
          /\ ~callow[cresult'.quib] =>
                /\ cresult'.exception
                      = Exception("AssignmentNotPossibleException", cresult'.quib, cresult'.assignment)
                /\ cresult'.overrides = << >>
                /\ UNCHANGED <<fixture, callow, cov, choice_cache>>
      ]_vars
\* The registered inverter has raised FailedToInvertException for an
\* assignment to the child, which allows overriding as its parent does: the
\* child itself is overridden.
C22_Witness ==
    /\ fixture = "failing_inverter"
    /\ callow["child"] /\ callow["parent1"]
    /\ cresult.name = "apply_assignment"
    /\ cresult.quib = "child"
    /\ cresult.exception = NotRaised
    /\ cresult.overrides = <<AssignmentToQuib("child", Assignment(WholePath, Scalar(5)))>>
    /\ cov["child"] = 5 /\ cov["parent1"] = 0


\* ------------------------------------------- the cached function call: claims
F_call == quib_function_call
F_is_quib == F_call.definition.name # "none"
\* The function was run by the last operation.
F_ran == F_is_quib /\ F_call.last.calls > 0
\* The elements of the argument q that the elements of the result inside the
\* path are computed from.
F_needed(q, path) ==
    {d[2] : d \in {e \in UNION {DependsOn(F_call.definition, i) :
                                  i \in Region(path, ResultSize(F_call.definition))} :
                      e[1] = q}}
F_translated ==
    /\ F_call.definition.translators # "none"
    /\ F_call.last.uncached_path.kind # "none"

C23_WitnessParameter ==
    /\ F_ran
    /\ F_call.definition.name = "sum"
    /\ F_call.last.uncached_path = GWhole
    /\ F_call.last.requests["a"] = GWhole
    /\ F_call.last.requests["p"] = GWhole

\* No translator is found for the function, without and with the shape and
\* type of the result, and it has data sources.
F_translation_fails ==
    /\ F_call.definition.translators = "none"
    /\ F_call.definition.data # {}
    /\ F_call.last.uncached_path.kind # "none"
\* C30: when the backward translation of the uncached path finds no
\* translator in either pass, the function is run with every data source
\* requested at the whole-object path, and the elements stored as valid in
\* the cache are computed from valid data of the arguments.
C30_TranslationFailureRequestsWholeSources ==
    F_ran /\ F_translation_fails =>
        /\ \A q \in F_call.definition.data : F_call.last.requests[q] = GWhole
        /\ F_call.cache.exists =>
              \A i \in F_call.cache.valid : F_call.cache.value[i].fresh
\* A function without translators has run and its data sources were
\* requested at no path: its cache holds as valid a result computed from
\* data of an argument that was not valid.
C30_Witness ==
    /\ F_ran /\ F_translation_fails
    /\ \A q \in F_call.definition.data : F_call.last.requests[q] = GNone
    /\ F_call.cache.exists
    /\ \E i \in F_call.cache.valid : ~F_call.cache.value[i].fresh

F_always_cached == F_call.definition.is_random \/ F_call.definition.graphics
F_got_value == F_is_quib /\ F_call.last.name = "get_value_valid_at_path"
F_fully_cached ==
    F_call.cache.exists /\ F_call.cache.valid = ResultPos(F_call.definition)
\* C25: a quib of a random or graphics function caches whatever cache
\* behavior is configured: every run leaves a cache, get_value() leaves it
\* valid everywhere, and a value request that finds it so returns the cached
\* value without calling the function; setting a cache behavior other than
\* 'on' on a random function quib raises and leaves the mode as it was, and
\* setting 'on' does not raise.
C25_RandomAndGraphicsAlwaysCached ==
    [][F_is_quib /\ F_always_cached =>
          /\ F_got_value' =>
                /\ F_call'.cache.exists /\ F_call'.caching
                /\ F_call'.last.path = GWhole => F_fully_cached'
                /\ F_fully_cached =>
                      /\ F_call'.last.calls = 0
                      /\ F_call'.last.result = F_call.cache.value
                      /\ F_call'.cache = F_call.cache
          /\ F_call'.last.name = "cache_behavior" /\ F_call.definition.is_random =>
                /\ F_call'.last.raised <=> F_call'.last.given # "on"
                /\ F_call'.last.raised => F_call'.cache_mode = F_call.cache_mode
                /\ F_call'.cache_mode \in {"auto", "on"}]_vars
\* A graphics function quib configured 'off' is asked for its value again
\* and returns it from the cache.
C25_Witness ==
    /\ F_got_value
    /\ F_call.definition.graphics
    /\ F_call.cache_mode = "off"
    /\ F_call.last.path = GWhole
    /\ F_call.last.calls = 0
    /\ F_fully_cached
    /\ F_call.last.result = F_call.cache.value
\* A random function quib refused the cache behavior 'off'.
C25_WitnessRaised ==
    /\ F_is_quib
    /\ F_call.definition.is_random
    /\ F_call.last.name = "cache_behavior"
    /\ F_call.last.given = "off"
    /\ F_call.last.raised
    /\ F_call.cache_mode = "auto"

\* C26: with cache behavior 'off' on a quib whose function is neither random
\* nor graphics-producing, every value request leaves the quib without a
\* cache, whatever happened before, and a value request that follows another
\* one under 'off' calls the function again.
C26_OffNeverCaches ==
    [][F_is_quib /\ ~F_always_cached /\ F_got_value' /\ F_call'.cache_mode = "off" =>
          /\ ~F_call'.cache.exists
          /\ F_got_value /\ F_call.cache_mode = "off" => F_call'.last.calls > 0]_vars
\* Under 'off' the value was requested and came from a cache kept from an
\* earlier run: the function was not called.
C26_Witness ==
    /\ F_got_value
    /\ ~F_always_cached
    /\ F_call.cache_mode = "off"
    /\ F_call.caching
    /\ F_call.cache.exists
    /\ F_call.last.path = GWhole
    /\ F_call.last.calls = 0

\* The quib is created with evaluate_now: by a flag of the call or, with
\* none, by the default of a known graphics function.
F_created_evaluating_now ==
    \/ F_call.last.given = "evaluate_now=True"
    \/ F_call.last.given = "no flags" /\ F_call.definition.graphics
\* C28: calling an overridden function with a quib among its arguments
\* creates a quib without calling the wrapped function, and the first value
\* request calls it; unless the quib is created with evaluate_now, the
\* default of a known graphics function, and then the wrapped function is
\* called exactly once at creation.
C28_CreationDefersEvaluation ==
    [][/\ ~F_is_quib /\ F_is_quib' =>
             /\ F_call'.last.name = "create_quib"
             /\ F_call'.last.calls = (IF F_created_evaluating_now' THEN 1 ELSE 0)
             /\ F_created_evaluating_now' \/ ~F_call'.cache.exists
       /\ F_is_quib /\ F_call.last.name = "create_quib" /\ F_call.last.calls = 0 /\ F_got_value' =>
             F_call'.last.calls = 1]_vars
\* add(a, b) was created with no flags and the wrapped function has not been
\* called.
C28_Witness ==
    /\ F_is_quib
    /\ F_call.definition.name = "add"
    /\ F_call.last.name = "create_quib"
    /\ F_call.last.given = "no flags"
    /\ F_call.last.calls = 0
    /\ ~F_call.cache.exists
\* plot(a, p) was created with no flags, hence with the default of a graphics
\* function, and the wrapped function has been called once.
C28_WitnessEvaluateNow ==
    /\ F_is_quib
    /\ F_call.definition.name = "plot"
    /\ F_call.last.name = "create_quib"
    /\ F_call.last.given = "no flags"
    /\ F_call.last.calls = 1

\* ------------------------------------------------------ the cache: claims
K_last == quib_function_call.last
K_covered == UNION {Region(K_last.uncached.paths[k], ArrLen) : k \in DOMAIN K_last.uncached.paths}
\* C24: for every cache kind, cache state and path p, get_uncached_paths(p)
\* returns the empty list after set_valid_value_at_path(p, v), and after
\* set_invalid_at_path(p) it returns paths that cover exactly p.
C24_CacheValidityRoundTrip ==
    /\ K_last.name = "set_valid_value_at_path" =>
          ~K_last.uncached.raised /\ K_last.uncached.paths = << >>
    /\ K_last.name = "set_invalid_at_path" =>
          ~K_last.uncached.raised /\ K_covered = Region(K_last.path, ArrLen)
\* A list cache was set valid at a boolean mask and get_uncached_paths of the
\* mask does not return the empty list.
C24_Witness ==
    /\ K_last.name = "set_valid_value_at_path"
    /\ K_last.kind = "list"
    /\ K_last.path = GMask({0, 2})
    /\ K_last.uncached.raised
\* The round trip of every other cache and component.
C24_RoundTripWhereIndexable ==
    ~cannot_index(K_last.kind, K_last.path) => C24_CacheValidityRoundTrip

\* ------------------------------------------- replace_assignments: claims
R_keys(entries) == {entries[k].key : k \in DOMAIN entries}
R_at(entries, key) == IF HasKey(entries, key) THEN entries[KeyAt(entries, key)].asg ELSE NoAssignment
\* The paths whose override state differs between two mappings.
R_changed(old, new) == {key \in R_keys(old) \cup R_keys(new) : R_at(old, key) # R_at(new, key)}
R_replaced == op.name = "replace_assignments"
\* C27: replace_assignments returns, and the quib invalidates, exactly the
\* paths whose assignment differs between the old and the new mapping; a
\* replacement by an identical mapping invalidates nothing.
C27_ReplaceReturnsChangedPaths ==
    R_replaced =>
        /\ {get_hashable_path(op.ret.invalidated[k]) : k \in DOMAIN op.ret.invalidated}
              = R_changed(op.ret.replaced, pta)
        /\ op.ret.replaced = pta => op.ret.invalidated = << >>
\* A mapping with one assignment was replaced by itself and the whole quib
\* was invalidated.
C27_Witness ==
    /\ R_replaced
    /\ Len(pta) = 1
    /\ op.ret.replaced = pta
    /\ op.ret.invalidated = <<WholePath>>

\* ------------------------------------- the graph: invalidation, the claims
A_invalidated == quib_function_call # NoFuncCall
A_last == quib_function_call.last
\* The path b is invalidated at.
A_new_path == A_last.new_paths[1]
\* b's overrider covers every position of the path with an assignment.
A_covered ==
    /\ A_last.overrider # << >>
    /\ \A i \in Region(A_new_path, SizeOf(func, "b")) :
          get_override_mask(A_last.overrider, PosOf(func, "b"))[i]
\* c's cache was valid everywhere, so that an invalidation of c shows.
A_visible ==
    /\ A_invalidated
    /\ Len(A_last.new_paths) = 1
    /\ A_last.before.exists
    /\ A_last.before.valid = PosOf(func, "c")
A_descended == A_last.after # A_last.before
\* C29 as stated: after b is invalidated at the translated path, b's child c
\* is invalidated if and only if b's overrider does not completely cover the
\* path, whatever the path the input quib was invalidated at.
C29_DescendsIffNotOverridden ==
    A_visible => (A_descended <=> ~A_covered)
\* C29: after b is invalidated at the translated path, b's child c is
\* invalidated if and only if the input quib was invalidated at the
\* whole-object path or b's overrider does not completely cover the
\* translated path.
C29_DescendsIffWholeOrNotOverridden ==
    A_visible => (A_descended <=> (A_last.path = GWhole \/ ~A_covered))
\* b is overridden at index 0 and the input is invalidated at the index that
\* translates to it: c keeps its cache.
C29_Witness ==
    /\ A_visible
    /\ A_last.path # GWhole
    /\ A_covered
    /\ ~A_descended
\* b is overridden as a whole and the input is invalidated as a whole: c is
\* invalidated.
C29_WitnessWhole ==
    /\ A_visible
    /\ A_last.path = GWhole
    /\ A_covered
    /\ A_descended
\* b is not overridden where it is invalidated: c is invalidated.
C29_WitnessNotOverridden ==
    /\ A_visible
    /\ A_last.path # GWhole
    /\ ~A_covered
    /\ A_descended


\* ------------------------------------------------ the child of a changed parent: the claims
W_invalidated == quib_function_call.definition.name # "none"
                 /\ quib_function_call.last.name = "invalidate_quib_with_children_at_path"
W_invalidator == quib_function_call.last.given
\* Whether forward translation fails both without and with shape and type.
W_translation_fails ==
    /\ translate_forwards(quib_function_call.definition, W_invalidator,
                          quib_function_call.last.path, FALSE).raised
    /\ translate_forwards(quib_function_call.definition, W_invalidator,
                          quib_function_call.last.path, TRUE).raised

\* C31: when a child is invalidated because a parent changed at a path, it is
\* invalidated at the whole-object path, which drops its cache, if the parent
\* is a parameter source or if no forward translator is found without and
\* with shape and type; NoTranslatorsFoundException never comes out of the
\* invalidation.
C31_WholeInvalidationOnParameterOrNoTranslator ==
    W_invalidated =>
        /\ ~quib_function_call.last.raised
        /\ (W_invalidator \in quib_function_call.definition.parameters \/ W_translation_fails)
              => /\ quib_function_call.last.requests = <<GWhole>>
                 /\ ~quib_function_call.cache.exists
C31_Witness ==
    /\ W_invalidated
    /\ W_invalidator \in quib_function_call.definition.data
    /\ W_translation_fails
    /\ quib_function_call.last.path.kind = "mask"
C31_WitnessParameter ==
    /\ W_invalidated
    /\ W_invalidator \in quib_function_call.definition.parameters
    /\ quib_function_call.definition.translators = "with_shape"
    /\ quib_function_call.last.path.kind = "mask"

\* ------------------------------------------------ the diamond graph: the claims
D_last == quib_function_call.last
D_invalidated == D_last.name = "invalidate_and_redraw_at_path"
D_state == [cache |-> cache, caching |-> caching]

\* C32: invalidating a quib at a path once more leaves the validity and the
\* valid values of every cache as the first invalidation left them, and in
\* the diamond the caches end up the same whichever child of the root the
\* invalidation visits first.
C32_InvalidationIdempotentAndOrderInsensitive ==
    D_invalidated =>
        /\ D_last.reversed = CacheState(D_state)
        /\ CacheState(dag_invalidate_children_at_path(func, ov, D_state, D_last.quib,
                                                      D_last.path, D_last.order))
              = CacheState(D_state)
\* The root was invalidated and the iteration order of its children decided
\* which elements of the caches are valid afterwards.
C32_OrderDecidesValidity ==
    /\ D_invalidated
    /\ D_last.quib = "root"
    /\ \E n \in DagFuncQuibs : D_last.reversed[n].valid # CacheState(D_state)[n].valid
\* What holds: an invalidation repeated with the same iteration order changes
\* no cache, and while no quib is overridden the order changes nothing.
C32_IdempotentInOneOrder ==
    D_invalidated =>
        CacheState(dag_invalidate_children_at_path(func, ov, D_state, D_last.quib,
                                                   D_last.path, D_last.order))
           = CacheState(D_state)
C32_OrderInsensitiveWithoutOverrides ==
    (D_invalidated /\ \A n \in DagQuibs : ov[n] = << >>)
        => D_last.reversed = CacheState(D_state)

\* ------------------------------------------------ the redraw after a call: the claims
\* The transitive children of a quib.
RECURSIVE TransitiveChildren(_, _)
TransitiveChildren(S, k) ==
    IF k = 0 THEN S
    ELSE TransitiveChildren(S \cup UNION {children[q] : q \in S}, k - 1)
V_descendants(q) == TransitiveChildren(children[q], MaxQuibs)

\* C33: the redraw is requested only once the invalidation of the call has
\* returned, for exactly the transitive children of the quib that can create
\* graphics, and for each of them once, however many ways lead to it.
C33_RedrawAfterInvalidationOncePerGraphicsQuib ==
    /\ tcall.phase \in {"redraw", "returned"}
          => \A k \in DOMAIN stack : stack[k].fn = "get_descendants"
    /\ quib_function_call.called
          => /\ tcall.phase = "returned"
             /\ stack = << >>
             /\ \A q \in Quibs :
                   quib_function_call.requests[q] =
                      IF q \in V_descendants(tcall.quib) /\ q \in quib_function_call.graphics
                      THEN 1 ELSE 0
    /\ tcall.phase \in {"invalidate", "redraw"} => quib_function_call.requests = NoRequests
\* C33 witness: quib 3, which can create graphics, is a child of quib 1 and of
\* its child quib 2, which cannot; the call on quib 1 invalidated along all
\* three edges and asked for one redraw of quib 3 and none of quib 2.
C33_Witness ==
    /\ children[1] = {2, 3}
    /\ children[2] = {3}
    /\ quib_function_call.graphics = {3}
    /\ quib_function_call.called
    /\ tcall.quib = 1
    /\ tcall.edges = 3
    /\ quib_function_call.requests = [q \in Quibs |-> IF q = 3 THEN 1 ELSE 0]

\* ------------------------------------------------ the application of a group: the claims
O_applied == cresult.name = "OverrideGroup.apply" /\ cresult.exception.type = "None"
O_events == cresult.applied
O_is(k, names) == O_events[k].name \in names
O_records == {"remove_assignment", "add_assignment"}
\* Every removal comes before any override, and every step lies between the
\* entry and the exit of the undo group.
O_RemovalsFirstInOneUndoGroup ==
    /\ \A i, j \in DOMAIN O_events :
          (O_is(i, {"add_assignment"}) /\ O_is(j, {"remove_assignment"})) => j < i
    /\ O_events[1].name = "undo_group_mode.enter"
    /\ O_events[Len(O_events)].name = "undo_group_mode.exit"
    /\ \A i \in 2 .. (Len(O_events) - 1) : ~O_is(i, {"undo_group_mode.enter", "undo_group_mode.exit"})

O_chain(sh, n, a) ==
    {x \in QuibsOf(sh) : x # a /\ (x = n \/ x \in Ancestors(sh, n)) /\ a \in Ancestors(sh, x)}
O_overridden == {cresult.overrides[k].quib : k \in DOMAIN cresult.overrides}
O_removed == {cresult.override_removals[k] : k \in DOMAIN cresult.override_removals}

\* C35: the group chosen for an assignment to a quib carries one override
\* removal for every quib on the way from it up to each quib overridden, that
\* quib excluded, and no other; once the group is applied every element of
\* the quib's value is the assigned value, whatever overrides the quib and
\* the quibs on the way held before.
C35_RemovalsOnTheWayMakeTheValue ==
    O_applied =>
        /\ O_removed = UNION {O_chain(fixture, cresult.quib, a) : a \in O_overridden}
        /\ Len(cresult.override_removals) = Cardinality(O_removed)
        /\ \A i \in DOMAIN quib_value(fixture, cov, cresult.quib) :
              quib_value(fixture, cov, cresult.quib)[i] = cresult.assignment.value.s
\* C35 witness: on the diverged graph 5 was assigned to the child and landed
\* on both grandparents with three removals; the child, overridden until
\* then (its removal was pushed on the undo stack), is 5 at both elements.
C35_Witness ==
    /\ O_applied
    /\ fixture = "diverged_quib_graph"
    /\ cresult.quib = "child"
    /\ cresult.assignment.value.s = 5
    /\ O_overridden = {"grandparent1", "grandparent2"}
    /\ O_removed = {"child", "parent1", "parent2"}
    /\ quib_value(fixture, cov, "child") = <<5, 5>>
    /\ \E i \in DOMAIN O_events : O_events[i] = Event("push_assignment_to_undo_stack", "child")
\* C35 witness: with one parent the override landed on the parent and the
\* removal is the child's.
C35_WitnessSingleParent ==
    /\ O_applied
    /\ fixture = "parent_and_child"
    /\ cresult.quib = "child"
    /\ O_overridden = {"parent1"}
    /\ cresult.override_removals = <<"child">>
    /\ cov["parent1"] = cresult.assignment.value.s - 1
\* C35 witness: in the chain of three the override landed on the grandparent
\* and took away the override the parent held.
C35_WitnessIntermediate ==
    /\ O_applied
    /\ fixture = "grandparent_parent_child"
    /\ cresult.quib = "child"
    /\ O_overridden = {"grandparent1"}
    /\ O_removed = {"child", "parent1"}
    /\ \E i \in DOMAIN O_events : O_events[i] = Event("push_assignment_to_undo_stack", "parent1")
    /\ cov["parent1"] = 0

\* --------------------------------------------- shape changes: the claims
X_overridden == op.name = "override"
X_raised == op.ret.result.raised
X_entry == pta[op.ret.result.at].asg

\* C36: override() raises only at the active assignment (the one added last
\* and not yet replayed), never at an older entry, and after a call that
\* returned the active marker is cleared.
C36_OnlyActiveFailurePropagates ==
    X_overridden =>
        /\ X_raised # "None" => X_entry = op.arg
        /\ X_raised = "None" => active = NoAssignment

\* C36, the part that holds: an Assignment that does not fit raises only when
\* it is the active one, and is skipped otherwise.
C36_AssignmentRaisesOnlyWhenActive ==
    X_overridden =>
        /\ (X_raised # "None" /\ X_entry.kind = "Assignment") =>
              (X_entry = op.arg /\ X_raised = "FailedToDeepAssignException")
        /\ X_raised = "None" => active = NoAssignment

\* C36 witness: an older reset to default, its marker long cleared, raised
\* out of override() once the data had become shorter.
C36_OlderDefaultRaises ==
    /\ X_overridden
    /\ X_raised = "IndexError"
    /\ op.arg = NoAssignment
    /\ X_entry.kind = "AssignmentToDefault"
    /\ Len(pta) = 2

\* C36 witness: the active assignment raised.
C36_ActiveRaises ==
    /\ X_overridden
    /\ X_raised = "FailedToDeepAssignException"
    /\ X_entry = op.arg

\* C36 witness: an older assignment that does not fit was skipped.
C36_OlderAssignmentSkipped ==
    /\ X_overridden
    /\ X_raised = "None"
    /\ op.arg = NoAssignment
    /\ \E k \in 1 .. Len(pta) :
          pta[k].asg.kind = "Assignment" /\ ~path_applies(op.ret.result.data, pta[k].asg.path)

\* -------------------------------------- the frame of override: the claims
\* The function result of a quib of the diamond, and its value with the
\* overrides on top.
RECURSIVE DagValue(_, _, _)
DagResult(f, ovs, q) ==
    dag_call_func(f, q, [k \in DOMAIN DagParents(q) |-> DagValue(f, ovs, DagParents(q)[k])])
DagValue(f, ovs, q) ==
    overridden(ovs[q], IF q = "root" THEN InputValue ELSE DagResult(f, ovs, q))

C37_WitnessEvaluated ==
    /\ quib_function_call.last.name = "override"
    /\ quib_function_call.last.quib = "left"
    /\ quib_function_call.last.path.kind = "mask"
    /\ Len(undo_stack) = 2
    /\ undo_stack[1].quib = "join"
    /\ cache["right"].valid = 0 .. (GraphLen - 1)

\* --------------------------------------- override that fails: the claims
A_raised == op'.name = "QuibHandler.override"
              /\ op'.ret.raised \in {"FailedToDeepAssignException", "InvalidTypeException"}

\* C38: an override() that raises FailedToDeepAssignException or
\* InvalidTypeException leaves the entries of the overrider, the
\* allow_overriding flag and the undo stack as they were before the call.
C38_FailedOverrideChangesNothing ==
    [][A_raised => (pta' = pta /\ allow' = allow /\ undo_stack' = undo_stack)]_vars

\* C38, the part that holds: such a call pushes nothing on the undo stack.
C38_FailedOverridePushesNothing ==
    [][A_raised => undo_stack' = undo_stack]_vars

\* C38 witness: the call raised, and the assignment that failed is the only
\* entry of the overrider and its active one, the flag is set and the undo
\* stack is empty.
C38_FailedOverrideKeptTheEntry ==
    /\ op.name = "QuibHandler.override"
    /\ op.ret.raised = "FailedToDeepAssignException"
    /\ Len(pta) = 1
    /\ pta[1].asg = op.arg
    /\ active = op.arg
    /\ allow["b"]
    /\ undo_stack = << >>

\* C38 witness: after the call that raised, the value of the quib cannot be
\* had either.
C38_ValueRaisesAfterwards ==
    /\ op.name = "get_value_valid_at_path"
    /\ op.ret.raised = "FailedToDeepAssignException"
    /\ undo_stack = << >>

\* ------------------------------------------- registration: the claims
B_registered == {n \in RegisteredNames : quib_function_call.registered[n] # NotRegistered}
B_inverters(n) ==
    items_of(quib_function_call.registered[n].inverters,
             quib_function_call.BINARY_ELEMENTWISE_INVERTERS)
B_special(n) == n[1] = "operator" /\ n[2] \in {"__add__", "__mul__"}
B_holds(list, item) == \E k \in DOMAIN list : list[k] = item

\* C39: after any registrations the list-operator translators and the
\* ListOperatorInverter are in the lists of __add__ and __mul__ only, and the
\* shared list of binary element-wise inverters is [BinaryElementwiseInverter].
C39_RegistrationKeepsSharedInverters ==
    /\ quib_function_call.BINARY_ELEMENTWISE_INVERTERS = <<"BinaryElementwiseInverter">>
    /\ \A n \in B_registered :
          /\ ~B_special(n) => ~B_holds(B_inverters(n), "ListOperatorInverter")
          /\ B_special(n) => B_inverters(n) = <<"ListOperatorInverter", "BinaryElementwiseInverter">>
          /\ B_holds(quib_function_call.registered[n].backwards_path_translators,
                     "ListOperatorBackwardsPathTranslator") <=> B_special(n)
          /\ B_holds(quib_function_call.registered[n].forwards_path_translators,
                     "ListOperatorForwardsPathTranslator") <=> B_special(n)

\* C39, the part that holds: the translator lists are the operator's own, and
\* hold the list-operator translators for __add__ and __mul__ only, in front.
C39_TranslatorsPerOperator ==
    \A n \in B_registered :
        /\ quib_function_call.registered[n].backwards_path_translators =
              IF B_special(n)
              THEN <<"ListOperatorBackwardsPathTranslator", "BinaryElementwiseBackwardsPathTranslator">>
              ELSE <<"BinaryElementwiseBackwardsPathTranslator">>
        /\ quib_function_call.registered[n].forwards_path_translators =
              IF B_special(n)
              THEN <<"ListOperatorForwardsPathTranslator", "BinaryElementwiseForwardsPathTranslator">>
              ELSE <<"BinaryElementwiseForwardsPathTranslator">>

\* C39 witness: with everything registered the shared list holds four
\* ListOperatorInverter before the BinaryElementwiseInverter, and __sub__ and
\* numpy's add have the ListOperatorInverter among their inverters.
C39_SharedListGrew ==
    /\ B_registered = RegisteredNames
    /\ Len(quib_function_call.BINARY_ELEMENTWISE_INVERTERS) = 5
    /\ quib_function_call.BINARY_ELEMENTWISE_INVERTERS[4] = "ListOperatorInverter"
    /\ B_holds(B_inverters(<<"operator", "__sub__", FALSE>>), "ListOperatorInverter")
    /\ B_holds(B_inverters(<<"numpy", "add", FALSE>>), "ListOperatorInverter")

\* ------------------------------------ the Overrider: pop and insert again
\* What a call of pop or insert is noted with: what it was given, what it
\* returned or raised, and the entries before the pop.
PopCall(path, raise_on_not_found, raised, returned, at, before) ==
    [name |-> "pop_assignment_at_path",
     arg |-> [path |-> path, raise_on_not_found |-> raise_on_not_found],
     ret |-> [raised |-> raised, before |-> before],
     popped |-> returned, poppedAt |-> at]
InsertCall(assignment, index, popped_from, before) ==
    [name |-> "insert_assignment_at_path_and_index",
     arg |-> [index |-> index, assignment |-> assignment],
     ret |-> [raised |-> "None", before |-> before],
     popped |-> assignment, poppedAt |-> popped_from]

\* The paths and assignments the round trip is driven with: the whole array,
\* one index and one slice, each assigned 5 or 7.
RoundTripPaths ==
    {WholePath, <<IndexComponent(0, "ndarray")>>, <<SliceComponent(0, 2, "ndarray")>>}
RoundTripAssignments ==
    {Assignment(p, Scalar(v)) : p \in RoundTripPaths, v \in ScalarVals}

\* Overrider.add_assignment, with the assignments of the round trip
AddRoundTripAssignment ==
    \E a \in RoundTripAssignments :
        LET stored == without_indexed_cls(a)
        IN  /\ (Len(pta) < MaxEntries \/ HasKey(pta, get_hashable_path(a.path)))
            /\ active' = stored
            /\ pta' = add_to_paths_to_assignments(pta, stored)
            /\ op' = Write("add_assignment", stored, pta)
            /\ UNCHANGED <<gvars, tvars, cvars, pvars, inversion, quib_function_call>>

\* Overrider.pop_assignment_at_path(path, raise_on_not_found)
PopAssignmentAtPath ==
    \E path \in RoundTripPaths, raise_on_not_found \in BOOLEAN :
        LET found == HasKey(pta, get_hashable_path(path))
            raises == raise_on_not_found /\ ~found
        IN  /\ pta' = IF raises THEN pta ELSE pop_assignment_at_path(pta, path)
            /\ op' = PopCall(path, raise_on_not_found,
                             IF raises THEN "NoAssignmentFoundAtPathException" ELSE "None",
                             IF raises THEN NoAssignment ELSE assignment_at(pta, path),
                             KeyAt(pta, get_hashable_path(path)), pta)
            /\ UNCHANGED active
            /\ UNCHANGED <<gvars, tvars, cvars, pvars, inversion, quib_function_call>>

\* Overrider.insert_assignment_at_path_and_index(assignment, path, index) with
\* the assignment just popped, at any index.
InsertAssignmentAtPathAndIndex ==
    /\ op.name = "pop_assignment_at_path"
    /\ op.popped # NoAssignment
    /\ \E index \in 0 .. Len(pta) :
          /\ pta' = insert_assignment_at_path_and_index(pta, op.popped, index)
          /\ op' = InsertCall(op.popped, index, op.poppedAt, op.ret.before)
    /\ UNCHANGED active
    /\ UNCHANGED <<gvars, tvars, cvars, pvars, inversion, quib_function_call>>

YNext == AddRoundTripAssignment \/ PopAssignmentAtPath \/ InsertAssignmentAtPathAndIndex

SpecRoundTrip == OvInit /\ [][YNext]_vars

\* C40: popping the entry of a path and inserting what was popped at the
\* position it had gives the entries back in their order; a pop at a path
\* without entry raises NoAssignmentFoundAtPathException under
\* raise_on_not_found and returns None otherwise, the entries staying as
\* they are.
C40_PopInsertRoundTrip ==
    /\ op.name = "pop_assignment_at_path" =>
          IF op.poppedAt # 0
          THEN /\ op.ret.raised = "None"
               /\ op.popped = op.ret.before[op.poppedAt].asg
               /\ get_hashable_path(op.popped.path) = get_hashable_path(op.arg.path)
               /\ pta = SubSeq(op.ret.before, 1, op.poppedAt - 1)
                          \o SubSeq(op.ret.before, op.poppedAt + 1, Len(op.ret.before))
               /\ insert_assignment_at_path_and_index(pta, op.popped, op.poppedAt - 1)
                     = op.ret.before
          ELSE /\ pta = op.ret.before
               /\ op.popped = NoAssignment
               /\ op.ret.raised = IF op.arg.raise_on_not_found
                                  THEN "NoAssignmentFoundAtPathException" ELSE "None"
    /\ (op.name = "insert_assignment_at_path_and_index" /\ op.arg.index = op.poppedAt - 1) =>
          pta = op.ret.before

\* C40 witness: the first of two entries was popped and inserted again at
\* index 0, and the entries are what they were.
C40_Witness ==
    /\ op.name = "insert_assignment_at_path_and_index"
    /\ op.poppedAt = 1
    /\ op.arg.index = 0
    /\ Len(pta) = 2
    /\ pta = op.ret.before
    /\ pta[1].asg = op.popped

\* C40 witness: a pop at a path without entry raised, entries being held.
C40_WitnessNotFound ==
    /\ op.name = "pop_assignment_at_path"
    /\ op.ret.raised = "NoAssignmentFoundAtPathException"
    /\ Len(pta) = 2

\* C40 witness: inserted at another index the entry changes the order.
C40_WitnessOtherIndex ==
    /\ op.name = "insert_assignment_at_path_and_index"
    /\ op.arg.index # op.poppedAt - 1
    /\ pta # op.ret.before
====
